---- MODULE Spec2Model ----
(***************************************************************************)
(* A model of the benchmark scripts of lmTestAuto:                         *)
(*   bench_lmstudio_models.py           (one unit per local model)         *)
(*   bench_ollama_concurrent_models.py  (one unit per concurrency level)   *)
(*   test_power_monitor.py              (capability probe, verifier)       *)
(*   bench_openrouter_models.py         (one unit per cloud model)         *)
(*   openrouter_report.py               (the report of the cloud session)  *)
(* The sampler process is an OS process: it runs, it may exit at any time  *)
(* (on its own, or after a signal), and it is reaped only when the Popen   *)
(* object polls or waits for it.                                           *)
(***************************************************************************)
EXTENDS Integers, Sequences, FiniteSets, TLC

VARIABLES
    toolPresent,    \* environment: the powermetrics binary can be executed
    proc,           \* PowerSampler.proc: 0 is None, else an index into pstate
    pstate,         \* the processes spawned so far: "running" | "exited" | "reaped"
    spawned,        \* processes spawned by the current PowerSampler instance
    stopPc,         \* position inside PowerSampler.stop()
    stopEvents,     \* what the current stop() call has done so far
    ncalls,         \* API harness: the calls made on the instance so far
    lastCall,       \* API harness: the last completed call
    prog,           \* which script runs: "lms" | "ollama" ("api": none)
    pc,             \* main(): the statement about to run
    unit,           \* index of the unit being benchmarked (model / level)
    exc,            \* the exception being propagated, "none" when there is none
    ram_stop_evt,   \* threading.Event of the RSS poller of this unit
    ramThread,      \* the RSS poller thread: "none" | "running" | "done"
    result,         \* lms: what chat_once returned: "none" | "good" | "nochoices"
    workers,        \* ollama: the generate_once threads started in this unit
    thread_results, \* ollama: the shared result list of this unit
    records,        \* per unit: "none" | "ok" | "error" (record with error marker)
    probe_i,        \* probe: index of the next candidate of combos
    probe_log,      \* probe: the invocations made, in order
    probe_ret,      \* probe: "idle" | "running" | "selected" | "None" | "raised"
    probe_sel,      \* probe: index of the combo returned, 0 when none
    last_err,       \* probe: a CalledProcessError was caught
    probe_calls,    \* how many times the probe has been called
    sampler_combo,  \* lms main(): the probe's result, 0 is None
    self_combo,     \* PowerSampler.sampler_combo, 0 is None
    pconf,          \* the --samplers argument of each process spawned
    impl,           \* parse: which parser runs: "lms" | "ollama" | "test"
    p_file,         \* parse: the log file: [exists, lines]
    line_i,         \* parse: number of the line the loop is at
    cpu_watts,      \* parse: the readings recorded for CPU
    gpu_watts,      \* parse: the readings recorded for GPU
    ane_watts,      \* parse: the readings recorded for ANE
    current_section,\* parse: "None" | "unbound" | "CPU" | "GPU" | "ANE"
    parse_ret,      \* parse: "idle" | "running" | "returned" | "raised"
    parse_exc,      \* parse: the exception raised, "none" when there is none
    power_stats,    \* the value parse_powermetrics_log returned
    rec_body,       \* per unit: the content of the persisted record
    ram_results,    \* the keys the RSS poller thread has published
    nreq,           \* requests sent in this unit: lms [1] REST, [2] /v1;
                    \* ollama [w] worker w
    w_out,          \* ollama: how the request of worker w ended, "none" before
    srv_probes,     \* lms ensure_server: failed probes of the running loop
    poll_ticks,     \* RSS poller: what each tick so far has read
    sys_hwm,        \* RSS poller: local sys_hwm
    lmstudio_hwm,   \* RSS poller: local lmstudio_hwm (ollama: hwm)
    poll_ret,       \* RSS poller: <<>> | <<"raised">> | <<"returned", ...>>
    c_pc,           \* cloud main(): the statement about to run
    c_models,       \* cloud: models_to_benchmark
    c_conc,         \* cloud: args.concurrency
    c_task,         \* cloud: position of each submitted benchmark_model call
    c_files,        \* cloud: results directory, record file name -> content
    c_lock,         \* cloud: report_lock, 0 when free, else the holder
    c_data,         \* cloud: <<files loaded>> per running update_report
    c_index,        \* cloud: <<records index.html covers>>, <<>> before
    c_req,          \* cloud: generation requests sent by each task
    c_did,          \* cloud: the effects each task has had
    c_skipped       \* cloud: files a report run skipped as corrupted

samplerVars == <<proc, pstate, spawned, stopPc, stopEvents, self_combo, pconf>>
apiVars == <<ncalls, lastCall>>
ramVars == <<ram_stop_evt, ramThread, ram_results>>
auxVars == <<nreq, w_out, srv_probes>>
pollVars == <<poll_ticks, sys_hwm, lmstudio_hwm, poll_ret>>
cloudVars ==
    <<c_pc, c_models, c_conc, c_task, c_files, c_lock, c_data, c_index,
      c_req, c_did, c_skipped>>
otherVars == <<auxVars, pollVars, cloudVars>>
mainVars == <<prog, pc, unit, exc, result, workers, thread_results, records>>
probeVars ==
    <<probe_i, probe_log, probe_ret, probe_sel, last_err, probe_calls,
      sampler_combo>>
parseVars ==
    <<impl, p_file, line_i, cpu_watts, gpu_watts, ane_watts, current_section,
      parse_ret, parse_exc>>
recVars == <<power_stats, rec_body>>
vars ==
    <<toolPresent, otherVars, samplerVars, apiVars, ramVars, mainVars,
      probeVars, parseVars, recVars>>

\* restVars without the request counters and the worker outcomes.
restButWorkers ==
    <<toolPresent, srv_probes, pollVars, cloudVars, probeVars, parseVars,
      recVars>>

\* restVars without the request counters.
restButNreq ==
    <<toolPresent, w_out, srv_probes, pollVars, cloudVars, probeVars, parseVars,
      recVars>>

\* The environment and the parts a benchmark unit does not touch.
restVars == <<toolPresent, otherVars, probeVars, parseVars, recVars>>

\* What PowerSampler's actions leave alone.
notSampler == <<restVars, apiVars, ramVars, mainVars>>

\* The capability probe before it is called.
ProbeIdle ==
    /\ probe_i = 1
    /\ probe_log = <<>>
    /\ probe_ret = "idle"
    /\ probe_sel = 0
    /\ last_err = FALSE
    /\ probe_calls = 0
    /\ sampler_combo = 0

\* power_stats before a parse has returned.
NoStats == [unset |-> TRUE]

\* The parse before it starts.
ParseIdle ==
    /\ line_i = 1
    /\ cpu_watts = <<>>
    /\ gpu_watts = <<>>
    /\ ane_watts = <<>>
    /\ current_section = "None"
    /\ parse_ret = "idle"
    /\ parse_exc = "none"

\* No parser runs step by step, no record is kept.
ParseUnused ==
    /\ impl = "none"
    /\ p_file = [exists |-> TRUE, lines |-> <<>>]
    /\ ParseIdle
    /\ power_stats = NoStats
    /\ rec_body = <<>>

\* No session runs: nothing is requested, no server is awaited.
AuxUnused ==
    /\ nreq = <<>>
    /\ w_out = <<>>
    /\ srv_probes = 0

\* No RSS poller is followed tick by tick.
PollUnused ==
    /\ poll_ticks = <<>>
    /\ sys_hwm = 0
    /\ lmstudio_hwm = 0
    /\ poll_ret = <<>>

\* No cloud session runs.
CloudUnused ==
    /\ c_pc = "unused"
    /\ c_models = <<>>
    /\ c_conc = 0
    /\ c_task = <<>>
    /\ c_files = <<>>
    /\ c_lock = 0
    /\ c_data = <<>>
    /\ c_index = <<>>
    /\ c_req = <<>>
    /\ c_did = <<>>
    /\ c_skipped = {}

(***************************************************************************)
(* Bounds                                                                  *)
(***************************************************************************)
MaxCalls == 4
NUnits == 2
MaxLogLen == 4
MaxShortLen == 2
NTasks == 2
MaxTicks == 3

\* The candidate configurations of the capability probe, in list order.
combos == << "cpu_power,gpu_power,ane_power",
             "cpu_power,gpu_power",
             "cpu_energy,gpu_energy",
             "cpu_power",
             "gpu_power",
             "all" >>

(***************************************************************************)
(* PowerSampler                                                            *)
(***************************************************************************)

\* A constructor that drops its sampler_combo argument.
PowerSamplerNew_noCombo(combo) ==
    /\ proc' = 0
    /\ self_combo' = 0
    /\ spawned' = 0
    /\ stopPc' = "none"
    /\ stopEvents' = <<>>

\* __init__: self.proc = None; self.sampler_combo = sampler_combo
PowerSamplerNew(combo) ==
    /\ proc' = 0
    /\ self_combo' = combo
    /\ spawned' = 0
    /\ stopPc' = "none"
    /\ stopEvents' = <<>>

\* start(): subprocess.Popen either spawns the process and binds self.proc,
\* or raises (the binary is absent) and leaves self.proc as it was.
\* There is no guard on self.proc: a second start() spawns again.
startSpawns == toolPresent

\* A start() that ignores self.sampler_combo.
samplerArg_all == "all"

\* sampler = self.sampler_combo or "all"
samplerArg == IF self_combo = 0 THEN "all" ELSE combos[self_combo]

start ==
    /\ IF startSpawns
       THEN /\ pstate' = Append(pstate, "running")
            /\ pconf' = Append(pconf, samplerArg)
            /\ proc' = Len(pstate) + 1
            /\ spawned' = spawned + 1
       ELSE UNCHANGED <<pstate, pconf, proc, spawned>>
    /\ UNCHANGED <<stopPc, stopEvents, self_combo>>

\* Popen.poll(): a process that has exited is reaped (returncode gets set).
poll(ps, p) == IF ps[p] = "exited" THEN [ps EXCEPT ![p] = "reaped"] ELSE ps

\* The outer 'except Exception: pass' of stop().
stop_swallow == "returned"

\* stop(): 'if self.proc:' then the try block is entered.
stop_enter ==
    /\ stopPc = "none"
    /\ stopEvents' = <<>>
    /\ stopPc' = IF proc # 0 THEN "terminate" ELSE "returned"
    /\ UNCHANGED <<proc, pstate, spawned, self_combo, pconf>>

\* self.proc.terminate(): Popen.send_signal polls first and sends nothing to
\* a process already reaped; os.kill may fail (the exception is swallowed).
stop_terminate ==
    /\ stopPc = "terminate"
    /\ pstate' = poll(pstate, proc)
    /\ IF pstate'[proc] = "reaped"
       THEN /\ stopEvents' = Append(stopEvents, "term_nosig")
            /\ stopPc' = "wait"
       ELSE \/ /\ stopEvents' = Append(stopEvents, "TERM")
               /\ stopPc' = "wait"
            \/ /\ stopEvents' = Append(stopEvents, "term_raise")
               /\ stopPc' = stop_swallow
    /\ UNCHANGED <<proc, spawned, self_combo, pconf>>

\* A stop() that kills whether or not the wait succeeded.
stop_wait_thenKill ==
    /\ stopPc = "wait"
    /\ pstate' = poll(pstate, proc)
    /\ stopEvents' = Append(stopEvents,
           IF pstate'[proc] = "reaped" THEN "wait_ok" ELSE "wait_timeout")
    /\ stopPc' = "kill"
    /\ UNCHANGED <<proc, spawned, self_combo, pconf>>

\* self.proc.wait(timeout=3): returns once the process has exited, raises
\* TimeoutExpired when it is still running at the end of the window.
stop_wait ==
    /\ stopPc = "wait"
    /\ pstate' = poll(pstate, proc)
    /\ IF pstate'[proc] = "reaped"
       THEN /\ stopEvents' = Append(stopEvents, "wait_ok")
            /\ stopPc' = "returned"
       ELSE /\ stopEvents' = Append(stopEvents, "wait_timeout")
            /\ stopPc' = "kill"
    /\ UNCHANGED <<proc, spawned, self_combo, pconf>>

\* except subprocess.TimeoutExpired: self.proc.kill(); nothing waits for the
\* killed process afterwards.
stop_kill ==
    /\ stopPc = "kill"
    /\ pstate' = poll(pstate, proc)
    /\ IF pstate'[proc] = "reaped"
       THEN /\ stopEvents' = Append(stopEvents, "kill_nosig")
            /\ stopPc' = "returned"
       ELSE \/ /\ stopEvents' = Append(stopEvents, "KILL")
               /\ stopPc' = "returned"
            \/ /\ stopEvents' = Append(stopEvents, "kill_raise")
               /\ stopPc' = stop_swallow
    /\ UNCHANGED <<proc, spawned, self_combo, pconf>>

stop_step == stop_terminate \/ stop_wait \/ stop_kill

\* The sampler process exits: on its own, or after SIGTERM or SIGKILL.
ProcExits ==
    /\ \E p \in 1..Len(pstate) :
          /\ pstate[p] = "running"
          /\ pstate' = [pstate EXCEPT ![p] = "exited"]
    /\ UNCHANGED <<proc, spawned, stopPc, stopEvents, self_combo, pconf>>

(***************************************************************************)
(* SpecSampler: one PowerSampler instance under any sequence of calls      *)
(***************************************************************************)
InitSampler ==
    /\ toolPresent \in BOOLEAN
    /\ proc = 0
    /\ pstate = <<>>
    /\ spawned = 0
    /\ stopPc = "none"
    /\ stopEvents = <<>>
    /\ self_combo = 0
    /\ pconf = <<>>
    /\ ncalls = 0
    /\ lastCall = "none"
    /\ prog = "api"
    /\ pc = "api"
    /\ unit = 0
    /\ exc = "none"
    /\ ram_stop_evt = FALSE
    /\ ramThread = "none"
    /\ ram_results = {}
    /\ AuxUnused
    /\ PollUnused
    /\ CloudUnused
    /\ result = "none"
    /\ workers = <<>>
    /\ thread_results = <<>>
    /\ records = <<>>
    /\ ProbeIdle
    /\ ParseUnused

ApiStart ==
    /\ ncalls < MaxCalls
    /\ stopPc = "none"
    /\ start
    /\ ncalls' = ncalls + 1
    /\ lastCall' = "start"
    /\ UNCHANGED <<restVars, ramVars, mainVars>>

ApiStop ==
    /\ ncalls < MaxCalls
    /\ stop_enter
    /\ ncalls' = ncalls + 1
    /\ UNCHANGED <<restVars, lastCall, ramVars, mainVars>>

ApiStopStep ==
    /\ stop_step
    /\ UNCHANGED notSampler

ApiStopReturn ==
    /\ stopPc \in {"returned", "raised"}
    /\ stopPc' = "none"
    /\ lastCall' = IF stopPc = "raised" THEN "stop_raised" ELSE "stop"
    /\ UNCHANGED <<restVars, proc, pstate, spawned, stopEvents, ncalls>>
    /\ UNCHANGED <<self_combo, pconf>>
    /\ UNCHANGED <<ramVars, mainVars>>

ApiProcExits ==
    /\ ProcExits
    /\ UNCHANGED notSampler

NextSampler ==
    \/ ApiStart
    \/ ApiStop
    \/ ApiStopStep
    \/ ApiStopReturn
    \/ ApiProcExits

SpecSampler == InitSampler /\ [][NextSampler]_vars

(***************************************************************************)
(* Properties of PowerSampler (SpecSampler)                                *)
(***************************************************************************)
Signals == {"TERM", "KILL"}
TermAttempts == {"TERM", "term_nosig", "term_raise"}
KillAttempts == {"KILL", "kill_nosig", "kill_raise"}
StopOver == stopPc \in {"returned", "raised"}

\* C4: a stop() that directly follows a stop() raises nothing and sends
\* neither a termination nor a kill signal.
C4_StopIdempotent ==
    /\ lastCall # "stop_raised"
    /\ (lastCall = "stop" /\ stopPc # "none") =>
          /\ stopPc # "raised"
          /\ \A i \in 1..Len(stopEvents) : stopEvents[i] \notin Signals

\* C5: stop() first terminates, then waits, and kills if and only if the
\* wait timed out: SIGKILL follows a SIGTERM and a timed-out wait, and a
\* wait that saw the process exit ends stop() with no kill.
C5_StopOrder ==
    /\ Len(stopEvents) >= 1 => stopEvents[1] \in TermAttempts
    /\ Len(stopEvents) >= 2 =>
          /\ stopEvents[1] \in {"TERM", "term_nosig"}
          /\ stopEvents[2] \in {"wait_ok", "wait_timeout"}
    /\ Len(stopEvents) >= 3 =>
          /\ stopEvents[1] = "TERM"
          /\ stopEvents[2] = "wait_timeout"
          /\ stopEvents[3] \in KillAttempts
          /\ Len(stopEvents) = 3
    /\ (StopOver /\ Len(stopEvents) = 2) => stopEvents[2] = "wait_ok"
    /\ (stopPc = "kill") => stopEvents = <<"TERM", "wait_timeout">>

\* A stop() that terminated, timed out and killed.
C5_Witness ==
    /\ stopPc = "returned"
    /\ stopEvents = <<"TERM", "wait_timeout", "KILL">>

\* C6: an instance spawns at most one process over its lifetime, and a
\* stop() on an instance that never started does nothing.
C6_Lifecycle ==
    /\ spawned <= 1
    /\ proc = 0 => stopEvents = <<>>

(***************************************************************************)
(* detect_powermetrics_samplers (detect_samplers in test_power_monitor.py) *)
(***************************************************************************)
\* Standard output of one invocation, as a sequence of characters.
Whitespace == {" ", "\n"}
Outputs == { <<>>, <<"\n">>, <<"P">>, <<" ", "P", "\n">> }
ExitStatuses == {0, 1}

RECURSIVE lstrip(_)
lstrip(s) ==
    IF s # <<>> /\ Head(s) \in Whitespace THEN lstrip(Tail(s)) ELSE s

RECURSIVE rstrip(_)
rstrip(s) ==
    IF s # <<>> /\ s[Len(s)] \in Whitespace
    THEN rstrip(SubSeq(s, 1, Len(s) - 1))
    ELSE s

\* str.strip()
strip(s) == rstrip(lstrip(s))

\* A probe that takes any successful exit.
accepts_anyOutput(status, out) == status = 0

\* subprocess.run(cmd, check=True, ...) returned, and 'if res.stdout.strip()'
accepts(status, out) == status = 0 /\ strip(out) # <<>>

\* One pass of 'for combo in combos': subprocess.run cannot execute the tool
\* (the OSError is not caught), or the tool runs and exits.
ProbeInvoke ==
    /\ probe_ret \in {"idle", "running"}
    /\ probe_i <= Len(combos)
    /\ probe_calls' = IF probe_ret = "idle" THEN probe_calls + 1
                                            ELSE probe_calls
    /\ UNCHANGED sampler_combo
    /\ IF ~toolPresent
       THEN /\ probe_ret' = "raised"
            /\ probe_log' = Append(probe_log,
                  [combo |-> combos[probe_i], status |-> -1, out |-> <<>>])
            /\ UNCHANGED <<probe_i, probe_sel, last_err>>
       ELSE \E status \in ExitStatuses, out \in Outputs :
            /\ probe_log' = Append(probe_log,
                  [combo |-> combos[probe_i], status |-> status, out |-> out])
            /\ IF accepts(status, out)
               THEN /\ probe_ret' = "selected"
                    /\ probe_sel' = probe_i
                    /\ UNCHANGED <<probe_i, last_err>>
               ELSE /\ probe_ret' = "running"
                    /\ probe_i' = probe_i + 1
                    /\ last_err' = (last_err \/ status # 0)
                    /\ probe_sel' = probe_sel
    /\ UNCHANGED <<toolPresent, otherVars>>
    /\ UNCHANGED <<samplerVars, apiVars, ramVars, mainVars>>
    /\ UNCHANGED <<parseVars, recVars>>

\* The loop ran out of candidates: 'return None'.
ProbeReturnNone ==
    /\ probe_ret = "running"
    /\ probe_i > Len(combos)
    /\ probe_ret' = "None"
    /\ UNCHANGED <<probe_i, probe_log, probe_sel, last_err>>
    /\ UNCHANGED <<probe_calls, sampler_combo>>
    /\ UNCHANGED <<toolPresent, otherVars>>
    /\ UNCHANGED <<samplerVars, apiVars, ramVars, mainVars>>
    /\ UNCHANGED <<parseVars, recVars>>

InitProbe ==
    /\ toolPresent \in BOOLEAN
    /\ ProbeIdle
    /\ proc = 0
    /\ pstate = <<>>
    /\ spawned = 0
    /\ stopPc = "none"
    /\ stopEvents = <<>>
    /\ self_combo = 0
    /\ pconf = <<>>
    /\ ncalls = 0
    /\ lastCall = "none"
    /\ prog = "probe"
    /\ pc = "probe"
    /\ unit = 0
    /\ exc = "none"
    /\ ram_stop_evt = FALSE
    /\ ramThread = "none"
    /\ ram_results = {}
    /\ AuxUnused
    /\ PollUnused
    /\ CloudUnused
    /\ result = "none"
    /\ workers = <<>>
    /\ thread_results = <<>>
    /\ records = <<>>
    /\ ParseUnused

NextProbe == ProbeInvoke \/ ProbeReturnNone

SpecProbe == InitProbe /\ [][NextProbe]_vars

(***************************************************************************)
(* Properties of the capability probe (SpecProbe)                          *)
(***************************************************************************)

\* The candidates were invoked in list order, one invocation each.
InListOrder ==
    /\ Len(probe_log) <= Len(combos)
    /\ \A k \in 1..Len(probe_log) : probe_log[k].combo = combos[k]

\* C10 as stated: the probe returns the first candidate that exits
\* successfully with non-empty standard output, invokes nothing after it,
\* and never selects a candidate that failed or printed nothing.
C10_FirstNonEmptyOutput ==
    /\ InListOrder
    /\ \A k \in 1..Len(probe_log) :
          (probe_log[k].status = 0 /\ probe_log[k].out # <<>>) =>
              (probe_ret = "selected" /\ probe_sel = k /\ Len(probe_log) = k)
    /\ probe_ret = "selected" =>
          /\ probe_log[probe_sel].status = 0
          /\ probe_log[probe_sel].out # <<>>

\* C10, amended: the probe invokes the candidates in list order and returns
\* the first candidate that exits successfully with standard output that is
\* non-empty once surrounding whitespace is stripped; it invokes nothing
\* after that candidate and never selects a candidate that failed or whose
\* output was empty or whitespace only.
C10_FirstNonBlankOutput ==
    /\ InListOrder
    /\ \A k \in 1..Len(probe_log) :
          (probe_log[k].status = 0 /\ strip(probe_log[k].out) # <<>>) =>
              (probe_ret = "selected" /\ probe_sel = k /\ Len(probe_log) = k)
    /\ probe_ret = "selected" =>
          /\ probe_sel = Len(probe_log)
          /\ probe_log[probe_sel].status = 0
          /\ strip(probe_log[probe_sel].out) # <<>>

\* The third candidate is selected after a failed one and a blank one.
C10_Witness ==
    /\ probe_ret = "selected" /\ probe_sel = 3
    /\ probe_log[1].status # 0
    /\ probe_log[2].status = 0 /\ probe_log[2].out = <<"\n">>
    /\ probe_log[3].out = <<" ", "P", "\n">>

\* C11: whatever the way the candidates fail (non-zero exit, blank output,
\* the tool cannot be executed), the probe raises nothing, and a probe that
\* is over without an accepted candidate has returned None.
C11_ProbeNeverRaises ==
    /\ probe_ret # "raised"
    /\ (probe_ret \notin {"idle", "running", "selected"}) => probe_ret = "None"

(***************************************************************************)
(* Python floats (IEEE 754 binary64), zero or positive                     *)
(*                                                                         *)
(* A float is [m |-> bits, e |-> exponent]: m holds the bits of the        *)
(* significand, most significant first, m[1] = 1, and the value is         *)
(* m * 2^e. Zero is the float with m = <<>>. Every operation rounds to     *)
(* nearest, ties to even, as the hardware does. Long bit strings are       *)
(* added and divided in chunks of ChunkBits bits.                          *)
(***************************************************************************)

\* Significand width of a Python float.
MantissaBits == 53

\* Extra quotient bits computed by a division before it rounds: enough for
\* a divisor below 2^(GuardBits - 2).
GuardBits == 20

\* Width of a chunk: a remainder times 2^ChunkBits stays a small integer.
ChunkBits == 13

Zero == [m |-> <<>>, e |-> 0]

zeros(n) == [i \in 1..n |-> 0]

\* The n low binary digits of a natural number, most significant first.
Bits(v, n) == [i \in 1..n |-> (v \div (2 ^ (n - i))) % 2]

dropZeros(b) ==
    IF \A i \in 1..Len(b) : b[i] = 0 THEN <<>>
    ELSE SubSeq(b, CHOOSE i \in 1..Len(b) :
                      b[i] = 1 /\ \A j \in 1..(i - 1) : b[j] = 0, Len(b))

\* The number a bit string of at most ChunkBits bits stands for.
RECURSIVE ToInt(_)
ToInt(b) ==
    IF b = <<>> THEN 0
    ELSE 2 * ToInt(SubSeq(b, 1, Len(b) - 1)) + b[Len(b)]

\* b cut into n chunks, zeros added on the left, and back.
Chunks(b, n) ==
    LET p == zeros(n * ChunkBits - Len(b)) \o b
    IN  [j \in 1..n |-> ToInt(SubSeq(p, (j - 1) * ChunkBits + 1, j * ChunkBits))]

Unchunk(cs) ==
    [i \in 1..(Len(cs) * ChunkBits) |->
        (cs[((i - 1) \div ChunkBits) + 1]
            \div (2 ^ (ChunkBits - 1 - ((i - 1) % ChunkBits)))) % 2]

NChunks(len) == (len + ChunkBits - 1) \div ChunkBits

\* Long division of the chunks cs by d, from chunk j on:
\* <<quotient chunks, remainder>>.
RECURSIVE LongDiv(_, _, _, _, _)
LongDiv(cs, d, j, q, r) ==
    IF j > Len(cs) THEN <<q, r>>
    ELSE LET v == r * (2 ^ ChunkBits) + cs[j]
         IN  LongDiv(cs, d, j + 1, Append(q, v \div d), v % d)

\* The sum of two chunk strings of one length, c the carry into chunk j;
\* the first chunk is wide enough to take the last carry.
RECURSIVE AddChunks(_, _, _, _)
AddChunks(a, b, j, c) ==
    IF j = 0 THEN <<>>
    ELSE LET v == a[j] + b[j] + c
         IN  Append(AddChunks(a, b, j - 1, v \div (2 ^ ChunkBits)),
                    v % (2 ^ ChunkBits))

\* The sum of two bit strings, as a bit string.
AddBits(a, b) ==
    LET n == NChunks((IF Len(a) > Len(b) THEN Len(a) ELSE Len(b)) + 1)
    IN  Unchunk(AddChunks(Chunks(a, n), Chunks(b, n), n, 0))

\* A rounding that truncates.
Round_truncate(bits, e, sticky) ==
    LET b == dropZeros(bits)
        L == Len(b)
    IN  IF L = 0 THEN Zero
        ELSE IF L <= MantissaBits
        THEN [m |-> b \o zeros(MantissaBits - L), e |-> e - (MantissaBits - L)]
        ELSE [m |-> SubSeq(b, 1, MantissaBits), e |-> e + (L - MantissaBits)]

\* The float nearest to bits * 2^e (plus a non-zero fraction of the last
\* bit when sticky): round to nearest, ties to even.
Round(bits, e, sticky) ==
    LET b == dropZeros(bits)
        L == Len(b)
    IN  IF L = 0 THEN Zero
        ELSE IF L <= MantissaBits
        THEN [m |-> b \o zeros(MantissaBits - L), e |-> e - (MantissaBits - L)]
        ELSE LET m0 == SubSeq(b, 1, MantissaBits)
                 rest == sticky \/ \E k \in (MantissaBits + 2)..L : b[k] = 1
                 up == b[MantissaBits + 1] = 1
                       /\ (rest \/ m0[MantissaBits] = 1)
                 m1 == IF up THEN dropZeros(AddBits(m0, <<1>>)) ELSE m0
             IN  IF Len(m1) > MantissaBits
                 THEN [m |-> SubSeq(m1, 1, MantissaBits),
                       e |-> e + (L - MantissaBits) + 1]
                 ELSE [m |-> m1, e |-> e + (L - MantissaBits)]

\* float(n) of an int below 2^31
FromInt(n) == Round(Bits(n, 31), 0, FALSE)

\* x / d for a float x and a positive int d (d converts to a float exactly)
truediv(x, d) ==
    IF x.m = <<>> THEN Zero
    ELSE LET b == x.m \o zeros(GuardBits)
             qr == LongDiv(Chunks(b, NChunks(Len(b))), d, 1, <<>>, 0)
         IN  Round(Unchunk(qr[1]), x.e - GuardBits, qr[2] # 0)

\* x + y
add(x, y) ==
    IF x.m = <<>> THEN y
    ELSE IF y.m = <<>> THEN x
    ELSE LET hi == IF x.e >= y.e THEN x ELSE y
             lo == IF x.e >= y.e THEN y ELSE x
         IN  Round(AddBits(hi.m \o zeros(hi.e - lo.e), lo.m), lo.e, FALSE)

\* x <= y
le(x, y) ==
    IF x.m = <<>> THEN TRUE
    ELSE IF y.m = <<>> THEN FALSE
    ELSE \/ x.e < y.e
         \/ /\ x.e = y.e
            /\ \/ x.m = y.m
               \/ \E i \in 1..MantissaBits :
                     /\ x.m[i] < y.m[i]
                     /\ \A j \in 1..(i - 1) : x.m[j] = y.m[j]

(***************************************************************************)
(* Text: a string is a sequence of characters, ESC is the character \x1B   *)
(***************************************************************************)
ESC == "ESC"

DigitSeq == <<"0", "1", "2", "3", "4", "5", "6", "7", "8", "9">>
UpperSeq == <<"A", "B", "C", "D", "E", "F", "G", "H", "I", "J", "K", "L", "M",
              "N", "O", "P", "Q", "R", "S", "T", "U", "V", "W", "X", "Y", "Z">>
LowerSeq == <<"a", "b", "c", "d", "e", "f", "g", "h", "i", "j", "k", "l", "m",
              "n", "o", "p", "q", "r", "s", "t", "u", "v", "w", "x", "y", "z">>

Range(f) == {f[i] : i \in DOMAIN f}
Min(S) == CHOOSE x \in S : \A y \in S : x <= y

\* \d, [A-Za-z] and \w
Digits == Range(DigitSeq)
Letters == Range(UpperSeq) \cup Range(LowerSeq)
WordChars == Letters \cup Digits \cup {"_"}

\* str.lower() of one character
Uppers == Range(UpperSeq)
LowerOf == [c \in Uppers |-> LowerSeq[CHOOSE i \in DOMAIN UpperSeq : UpperSeq[i] = c]]
lower(c) == IF c \in Uppers THEN LowerOf[c] ELSE c

\* The pattern pat matches s at position i, with re.I and without.
MatchAtI(s, i, pat) ==
    /\ i + Len(pat) - 1 <= Len(s)
    /\ \A k \in 1..Len(pat) : lower(s[i + k - 1]) = lower(pat[k])

MatchAt(s, i, pat) ==
    /\ i + Len(pat) - 1 <= Len(s)
    /\ \A k \in 1..Len(pat) : s[i + k - 1] = pat[k]

\* The end of the longest run of characters of cls that starts at i.
RECURSIVE skip(_, _, _)
skip(s, i, cls) ==
    IF i <= Len(s) /\ s[i] \in cls THEN skip(s, i + 1, cls) ELSE i

\* ansi_escape = re.compile(r"\x1B\[[0-?]*[ -/]*[@-~]"): the three character
\* classes (without the quote characters), and the length of the match at
\* the head of s (0: no match).
ParamChars == Digits \cup {":", ";", "<", "=", ">", "?"}
IntermChars == {" ", "!", "#", "$", "%", "&", "(", ")", "*", "+", ",", "-",
                ".", "/"}
FinalChars == Letters \cup {"@", "[", "]", "^", "_", "{", "|", "}", "~"}

ansi_match(s) ==
    IF Len(s) >= 2 /\ s[1] = ESC /\ s[2] = "["
    THEN LET f == skip(s, skip(s, 3, ParamChars), IntermChars)
         IN  IF f <= Len(s) /\ s[f] \in FinalChars THEN f ELSE 0
    ELSE 0

\* ansi_escape.sub("", s): the leftmost match is removed, then the matches
\* in what follows it.
RECURSIVE ansi_sub(_)
ansi_sub(s) ==
    LET at == {i \in 1..Len(s) : ansi_match(SubSeq(s, i, Len(s))) > 0}
    IN  IF at = {} THEN s
        ELSE LET i == Min(at)
                 n == ansi_match(SubSeq(s, i, Len(s)))
             IN  SubSeq(s, 1, i - 1) \o ansi_sub(SubSeq(s, i + n, Len(s)))

\* A cleaning that removes the escape sequences before it strips.
clean_subFirst(raw) == strip(ansi_sub(raw))

\* s = ansi_escape.sub("", line.strip())
clean(raw) == ansi_sub(strip(raw))

(***************************************************************************)
(* The regular expressions of the parsers                                  *)
(***************************************************************************)
LabelNames == <<"CPU", "GPU", "ANE">>
LabelChars == << <<"C", "P", "U">>, <<"G", "P", "U">>, <<"A", "N", "E">> >>
sPower ==
    << "P", "o", "w", "e", "r", ":" >>
sAveragePower ==
    << "A", "v", "e", "r", "a", "g", "e", " ", "p", "o", "w", "e", "r",
       ":" >>
NumChars == Digits \cup {"."}
NoReading == [ok |-> FALSE, num |-> <<>>, unit |-> "none"]

\* A unit test that is case-sensitive.
unit_of_caseSensitive(s, c) ==
    IF c + 1 <= Len(s) /\ s[c] = "m" /\ s[c + 1] = "W" THEN "mw"
    ELSE IF c <= Len(s) /\ s[c] = "W" THEN "w"
    ELSE "none"

\* (m?W) under re.I at position c, then m.group(2).lower()
unit_of(s, c) ==
    IF c + 1 <= Len(s) /\ lower(s[c]) = "m" /\ lower(s[c + 1]) = "w" THEN "mw"
    ELSE IF c <= Len(s) /\ lower(s[c]) = "w" THEN "w"
    ELSE "none"

\* \s*([\d.]+)\s*(m?W) matched at position j: group 1 and the unit. The
\* classes are disjoint, so the greedy match is the only one.
reading(s, j) ==
    LET a == skip(s, j, Whitespace)
        b == skip(s, a, NumChars)
        c == skip(s, b, Whitespace)
    IN  IF b > a /\ unit_of(s, c) # "none"
        THEN [ok |-> TRUE, num |-> SubSeq(s, a, b - 1), unit |-> unit_of(s, c)]
        ELSE NoReading

\* re.search(fr"{label}.*?Power:\s*([\d.]+)\s*(m?W)", s, re.I): the match
\* starts at the first occurrence of the label and takes the first "Power:"
\* after it that a reading follows.
search_direct(s, k) ==
    LET starts == {i \in 1..Len(s) : MatchAtI(s, i, LabelChars[k])}
        ends == {j \in 1..Len(s) :
                    /\ starts # {}
                    /\ j >= Min(starts) + Len(LabelChars[k])
                    /\ MatchAtI(s, j, sPower)
                    /\ reading(s, j + Len(sPower)).ok}
    IN  IF ends = {} THEN NoReading ELSE reading(s, Min(ends) + Len(sPower))

\* re.search(r"Average power:\s*([\d.]+)\s*(m?W)", s, re.I)
search_average(s) ==
    LET ends == {j \in 1..Len(s) :
                    /\ MatchAtI(s, j, sAveragePower)
                    /\ reading(s, j + Len(sAveragePower)).ok}
    IN  IF ends = {} THEN NoReading
        ELSE reading(s, Min(ends) + Len(sAveragePower))

\* The section header test of each parser: the index of the label, 0 for
\* no match.
\*   lms:    re.match(r"^(CPU|GPU|ANE)\b", s, re.I)
\*   ollama: re.match(r"^(CPU|GPU|ANE)", s, re.I)
\*   test:   re.search(r"^(CPU|GPU|ANE).*", s)
header(im, s) ==
    LET hits == {k \in 1..3 :
                    /\ IF im = "test" THEN MatchAt(s, 1, LabelChars[k])
                                        ELSE MatchAtI(s, 1, LabelChars[k])
                    /\ im = "lms" => (Len(s) = 3 \/ s[4] \notin WordChars)}
    IN  IF hits = {} THEN 0 ELSE CHOOSE k \in hits : TRUE

(***************************************************************************)
(* float(text) and the conversion to watts                                 *)
(***************************************************************************)
DigitVal(c) == (CHOOSE i \in DOMAIN DigitSeq : DigitSeq[i] = c) - 1

\* float() accepts digits with at most one point and at least one digit.
float_ok(txt) ==
    /\ Cardinality({i \in 1..Len(txt) : txt[i] = "."}) <= 1
    /\ \E i \in 1..Len(txt) : txt[i] \in Digits

\* The digits of txt read as one integer, the point left out.
RECURSIVE DigitsValue(_)
DigitsValue(txt) ==
    IF txt = <<>> THEN 0
    ELSE IF txt[Len(txt)] = "." THEN DigitsValue(SubSeq(txt, 1, Len(txt) - 1))
    ELSE 10 * DigitsValue(SubSeq(txt, 1, Len(txt) - 1)) + DigitVal(txt[Len(txt)])

RECURSIVE pow10(_)
pow10(k) == IF k = 0 THEN 1 ELSE 10 * pow10(k - 1)

\* How many digits follow the point.
Decimals(txt) ==
    IF \E i \in 1..Len(txt) : txt[i] = "."
    THEN Len(txt) - (CHOOSE i \in 1..Len(txt) : txt[i] = ".")
    ELSE 0

\* float(txt) of an accepted text: the float nearest to the decimal number
float(txt) == truediv(FromInt(DigitsValue(txt)), pow10(Decimals(txt)))

\* A conversion that records milliwatts as they are.
watts_noScale(r) == float(r.num)

\* val / 1000.0 if unit == "mw" else val
watts(r) == IF r.unit = "mw" THEN truediv(float(r.num), 1000) ELSE float(r.num)

(***************************************************************************)
(* The parsers: parse_powermetrics_log of bench_lmstudio_models.py ("lms") *)
(* and of bench_ollama_concurrent_models.py ("ollama"), and parse_watts of *)
(* test_power_monitor.py ("test"). The locals of a parse are               *)
(*   [cpu, gpu, ane, cur, exc]: the three lists, the current section        *)
(*   ("None", "unbound": never assigned) and the exception raised.         *)
(***************************************************************************)
Impls == {"lms", "ollama", "test"}

\* How many of the lists CPU, GPU, ANE the parser keeps.
Channels(im) == IF im = "ollama" THEN 2 ELSE 3

\* One appended reading, with the line and the rule it came from.
Sample(r, i, rule) == [w |-> watts(r), line |-> i, rule |-> rule]

AppendTo(st, k, e) ==
    CASE k = 1 -> [st EXCEPT !.cpu = Append(@, e)]
      [] k = 2 -> [st EXCEPT !.gpu = Append(@, e)]
      [] k = 3 -> [st EXCEPT !.ane = Append(@, e)]

SectionIndex(cur) ==
    CASE cur = "CPU" -> 1 [] cur = "GPU" -> 2 [] cur = "ANE" -> 3 [] OTHER -> 0

\* for label, arr in (("CPU", cpu_watts), ...): m = re.search(...); if m:
\* val = float(m.group(1)); arr.append(watts), from the k-th label on.
RECURSIVE DirectRule(_, _, _, _, _)
DirectRule(im, st, s, i, k) ==
    IF k > Channels(im) \/ st.exc # "none" THEN st
    ELSE LET r == search_direct(s, k)
         IN  IF ~r.ok THEN DirectRule(im, st, s, i, k + 1)
             ELSE IF ~float_ok(r.num) THEN [st EXCEPT !.exc = "ValueError"]
             ELSE DirectRule(im, AppendTo(st, k, Sample(r, i, "direct")),
                             s, i, k + 1)

\* A section rule that files every reading under CPU.
AverageRule_alwaysCpu(im, st, s, i) ==
    LET r == search_average(s)
    IN  IF st.exc # "none" \/ ~r.ok THEN st
        ELSE IF im # "test" /\ st.cur = "None" THEN st
        ELSE IF ~float_ok(r.num) THEN [st EXCEPT !.exc = "ValueError"]
        ELSE IF st.cur = "unbound"
        THEN [st EXCEPT !.exc = "UnboundLocalError"]
        ELSE AppendTo(st, 1, Sample(r, i, "average"))

\* m2 = re.search(r"Average power: ..."); lms and ollama: 'if m2 and
\* current_section:', test: 'if m2:' and then a read of 'current', which is
\* unbound until a header line was seen. A section without a list of its
\* own (ANE in ollama) appends nothing.
AverageRule(im, st, s, i) ==
    LET r == search_average(s)
    IN  IF st.exc # "none" \/ ~r.ok THEN st
        ELSE IF im # "test" /\ st.cur = "None" THEN st
        ELSE IF ~float_ok(r.num) THEN [st EXCEPT !.exc = "ValueError"]
        ELSE IF st.cur = "unbound"
        THEN [st EXCEPT !.exc = "UnboundLocalError"]
        ELSE IF SectionIndex(st.cur) \in 1..Channels(im)
        THEN AppendTo(st, SectionIndex(st.cur), Sample(r, i, "average"))
        ELSE st

\* The body of the loop over the lines, for line number i: lms and ollama
\* update the section, then apply the direct rule; test applies the direct
\* rule first. The section rule comes last in all three.
LineStep(im, st, raw, i) ==
    LET s == clean(raw)
        h == header(im, s)
        setcur(t) == IF h = 0 \/ t.exc # "none" THEN t
                     ELSE [t EXCEPT !.cur = LabelNames[h]]
    IN  IF im = "test"
        THEN AverageRule(im, setcur(DirectRule(im, st, s, i, 1)), s, i)
        ELSE AverageRule(im, DirectRule(im, setcur(st), s, i, 1), s, i)

\* The locals before the first line.
Locals0(im) ==
    [cpu |-> <<>>, gpu |-> <<>>, ane |-> <<>>,
     cur |-> IF im = "test" THEN "unbound" ELSE "None", exc |-> "none"]

\* The loop over the lines from line i on, up to the first exception.
RECURSIVE ParseFrom(_, _, _, _)
ParseFrom(im, st, lines, i) ==
    IF i > Len(lines) \/ st.exc # "none" THEN st
    ELSE ParseFrom(im, LineStep(im, st, lines[i], i), lines, i + 1)

(***************************************************************************)
(* stats(arr)                                                              *)
(***************************************************************************)
Values(arr) == [i \in 1..Len(arr) |-> arr[i].w]

\* sum(arr): 0 + arr[0] + arr[1] + ..., left to right
RECURSIVE sum(_)
sum(ws) ==
    IF ws = <<>> THEN Zero
    ELSE add(sum(SubSeq(ws, 1, Len(ws) - 1)), ws[Len(ws)])

max(ws) == ws[CHOOSE i \in 1..Len(ws) : \A j \in 1..Len(ws) : le(ws[j], ws[i])]
min(ws) == ws[CHOOSE i \in 1..Len(ws) : \A j \in 1..Len(ws) : le(ws[i], ws[j])]

\* None is <<>>, a float x is <<x>>.
None == <<>>

stats(arr) ==
    LET ws == Values(arr)
    IN  [avg |-> IF ws # <<>> THEN <<truediv(sum(ws), Len(ws))>> ELSE None,
         max |-> IF ws # <<>> THEN <<max(ws)>> ELSE None,
         min |-> IF ws # <<>> THEN <<min(ws)>> ELSE None,
         samples |-> Len(ws)]

\* A return value that leaves out the channels without samples.
Returned_omitEmpty(im, st) ==
    LET ls == <<st.cpu, st.gpu, st.ane>>
        ks == <<"cpu_watts", "gpu_watts", "ane_watts">>
        kept == {k \in 1..Channels(im) : ls[k] # <<>>}
    IN  [key \in {ks[k] : k \in kept} |->
            stats(ls[CHOOSE k \in kept : ks[k] = key])]

\* The value returned: lms has three keys, ollama two; test_power_monitor's
\* main() prints stats(cpu), stats(gpu), stats(ane).
Returned(im, st) ==
    IF im = "ollama"
    THEN [cpu_watts |-> stats(st.cpu), gpu_watts |-> stats(st.gpu)]
    ELSE [cpu_watts |-> stats(st.cpu), gpu_watts |-> stats(st.gpu),
          ane_watts |-> stats(st.ane)]

\* open(path, "r") of a missing file raises FileNotFoundError: lms has no
\* handler; the handler of ollama evaluates 'return {{}}', a set holding a
\* dict, which raises TypeError (unhashable type).
OpenFailure(im) == IF im = "lms" THEN "FileNotFoundError" ELSE "TypeError"

(***************************************************************************)
(* SpecParse: one parse of one log                                         *)
(***************************************************************************)
SeqsUpTo(S, n) == UNION {[1..k -> S] : k \in 0..n}

\* A reading line: "<prefix> <number> <unit>"
MkReading(prefix, num, u) == prefix \o <<" ">> \o num \o <<" ">> \o u

\* The lines, prefixes, numbers and units the logs are made of.
L_cpuTemperature ==
    << "C", "P", "U", " ", "t", "e", "m", "p", "e", "r", "a", "t", "u",
       "r", "e", ":", " ", "5", "0", "C" >>
L_average850mW ==
    << "A", "v", "e", "r", "a", "g", "e", " ", "p", "o", "w", "e", "r",
       ":", " ", "8", "5", "0", " ", "m", "W" >>
L_gpuFoo ==
    << "G", "P", "U", " ", "f", "o", "o" >>
L_average2p1W ==
    << "A", "v", "e", "r", "a", "g", "e", " ", "p", "o", "w", "e", "r",
       ":", " ", "2", ".", "1", " ", "W" >>
L_aneIdle ==
    << "A", "N", "E", " ", "i", "d", "l", "e" >>
L_cpuPower3W ==
    << "C", "P", "U", " ", "P", "o", "w", "e", "r", ":", " ", "3", " ",
       "W" >>
L_gpuPower1p2p3W ==
    << "G", "P", "U", " ", "P", "o", "w", "e", "r", ":", " ", "1", ".",
       "2", ".", "3", " ", "W" >>
L_averageDotMW ==
    << "A", "v", "e", "r", "a", "g", "e", " ", "p", "o", "w", "e", "r",
       ":", " ", ".", " ", "m", "W" >>
L_anePower5kW ==
    << "A", "N", "E", " ", "P", "o", "w", "e", "r", ":", " ", "5", " ",
       "k", "W" >>
L_gpuIdleCpuPower3W ==
    << "G", "P", "U", " ", "i", "d", "l", "e", ",", " ", "C", "P", "U",
       " ", "P", "o", "w", "e", "r", ":", " ", "3", " ", "W" >>
L_escSpaceGpuFoo ==
    << ESC, "[", "K", " ", "G", "P", "U", " ", "f", "o", "o" >>
L_escCpuPower3W ==
    << ESC, "[", "1", "m", "C", "P", "U", " ", "P", "o", "w", "e", "r",
       ":", " ", "3", " ", "W" >>
L_average2p1escW ==
    << "A", "v", "e", "r", "a", "g", "e", " ", "p", "o", "w", "e", "r",
       ":", " ", "2", ".", "1", ESC, "[", "0", "m", " ", "W" >>
L_cpuPower100mW ==
    << "C", "P", "U", " ", "P", "o", "w", "e", "r", ":", " ", "1", "0",
       "0", " ", "m", "W" >>
L_gpuPower100mW ==
    << "G", "P", "U", " ", "P", "o", "w", "e", "r", ":", " ", "1", "0",
       "0", " ", "m", "W" >>
L_anePower0mW ==
    << "A", "N", "E", " ", "P", "o", "w", "e", "r", ":", " ", "0", " ",
       "m", "W" >>
L_cpuUsage ==
    << "C", "P", "U", " ", "u", "s", "a", "g", "e" >>
P_cpuPower ==
    << "C", "P", "U", " ", "P", "o", "w", "e", "r", ":" >>
P_gpuPower ==
    << "G", "P", "U", " ", "P", "o", "w", "e", "r", ":" >>
P_anePower ==
    << "A", "N", "E", " ", "P", "o", "w", "e", "r", ":" >>
N_100 ==
    << "1", "0", "0" >>
N_0p1 ==
    << "0", ".", "1" >>
N_2p1 ==
    << "2", ".", "1" >>
N_0p0021 ==
    << "0", ".", "0", "0", "2", "1" >>
N_850 ==
    << "8", "5", "0" >>
N_3 ==
    << "3" >>
U_mW ==
    << "m", "W" >>
U_W ==
    << "W" >>
U_MW ==
    << "M", "W" >>
U_w ==
    << "w" >>
U_mw ==
    << "m", "w" >>

\* Lines of a log with an "Average power" block per section.
AttributionLines ==
    {L_cpuTemperature, L_average850mW, L_gpuFoo, L_average2p1W}

\* Lines of a log with a block for the neural engine.
AneLines == {L_aneIdle, L_average850mW}

\* Lines with malformed numbers, an unknown unit, and a good reading.
MalformedLines ==
    {L_cpuPower3W, L_gpuPower1p2p3W, L_averageDotMW, L_anePower5kW,
     L_gpuIdleCpuPower3W}

\* Lines with terminal escape sequences in them.
EscapeLines ==
    {L_escSpaceGpuFoo, L_escCpuPower3W, L_average2p1escW, L_average850mW}

\* Lines of an idle machine, and one of a busy one.
IdleLines == {L_cpuPower100mW, L_cpuPower3W, L_anePower0mW}

\* Readings with their units in several spellings: a header, then two
\* readings under one prefix.
Prefixes == {P_cpuPower, P_gpuPower, P_anePower, sAveragePower}
ReadingTexts ==
    { <<N_100, U_mW>>, <<N_0p1, U_W>>, <<N_2p1, U_MW>>, <<N_0p0021, U_w>>,
      <<N_850, U_mw>>, <<N_3, U_W>> }
UnitLogs ==
    { <<L_cpuUsage, MkReading(p, r1[1], r1[2]), MkReading(p, r2[1], r2[2])>> :
          p \in Prefixes, r1 \in ReadingTexts, r2 \in ReadingTexts }

Logs ==
    SeqsUpTo(AttributionLines, MaxLogLen) \cup SeqsUpTo(AneLines, MaxLogLen)
    \cup SeqsUpTo(IdleLines, MaxLogLen)
    \cup SeqsUpTo(MalformedLines, MaxShortLen)
    \cup SeqsUpTo(EscapeLines, MaxShortLen)
    \cup UnitLogs

\* The locals of the running parse as one record, and back.
Locals ==
    [cpu |-> cpu_watts, gpu |-> gpu_watts, ane |-> ane_watts,
     cur |-> current_section, exc |-> "none"]

\* with open(path, "r", errors="ignore") as f:
ParseOpen ==
    /\ parse_ret = "idle"
    /\ IF p_file.exists
       THEN /\ parse_ret' = "running"
            /\ current_section' = Locals0(impl).cur
            /\ parse_exc' = parse_exc
       ELSE /\ parse_ret' = "raised"
            /\ parse_exc' = OpenFailure(impl)
            /\ current_section' = current_section
    /\ UNCHANGED <<impl, p_file, line_i, cpu_watts, gpu_watts, ane_watts>>
    /\ UNCHANGED <<power_stats, rec_body>>
    /\ UNCHANGED <<toolPresent, otherVars, probeVars, samplerVars, apiVars, ramVars>>
    /\ UNCHANGED mainVars

\* One pass of 'for line in f:'
ParseLine ==
    /\ parse_ret = "running"
    /\ line_i <= Len(p_file.lines)
    /\ LET st == LineStep(impl, Locals, p_file.lines[line_i], line_i)
       IN  /\ cpu_watts' = st.cpu
           /\ gpu_watts' = st.gpu
           /\ ane_watts' = st.ane
           /\ current_section' = st.cur
           /\ parse_exc' = st.exc
           /\ parse_ret' = IF st.exc # "none" THEN "raised" ELSE "running"
           /\ line_i' = IF st.exc # "none" THEN line_i ELSE line_i + 1
    /\ UNCHANGED <<impl, p_file, power_stats, rec_body>>
    /\ UNCHANGED <<toolPresent, otherVars, probeVars, samplerVars, apiVars, ramVars>>
    /\ UNCHANGED mainVars

\* return {"cpu_watts": stats(cpu_watts), ...}
ParseReturn ==
    /\ parse_ret = "running"
    /\ line_i > Len(p_file.lines)
    /\ power_stats' = Returned(impl, Locals)
    /\ parse_ret' = "returned"
    /\ UNCHANGED <<impl, p_file, line_i, cpu_watts, gpu_watts, ane_watts>>
    /\ UNCHANGED <<current_section, parse_exc, rec_body>>
    /\ UNCHANGED <<toolPresent, otherVars, probeVars, samplerVars, apiVars, ramVars>>
    /\ UNCHANGED mainVars

InitParse ==
    /\ impl \in Impls
    /\ p_file \in {[exists |-> TRUE, lines |-> l] : l \in Logs}
                  \cup (IF impl = "test" THEN {}
                        ELSE {[exists |-> FALSE, lines |-> <<>>]})
    /\ ParseIdle
    /\ power_stats = NoStats
    /\ rec_body = <<>>
    /\ toolPresent = TRUE
    /\ ProbeIdle
    /\ proc = 0
    /\ pstate = <<>>
    /\ spawned = 0
    /\ stopPc = "none"
    /\ stopEvents = <<>>
    /\ self_combo = 0
    /\ pconf = <<>>
    /\ ncalls = 0
    /\ lastCall = "none"
    /\ prog = "parse"
    /\ pc = "parse"
    /\ unit = 0
    /\ exc = "none"
    /\ ram_stop_evt = FALSE
    /\ ramThread = "none"
    /\ ram_results = {}
    /\ AuxUnused
    /\ PollUnused
    /\ CloudUnused
    /\ result = "none"
    /\ workers = <<>>
    /\ thread_results = <<>>
    /\ records = <<>>

NextParse == ParseOpen \/ ParseLine \/ ParseReturn

SpecParse == InitParse /\ [][NextParse]_vars

(***************************************************************************)
(* Properties of the parsers                                               *)
(***************************************************************************)
\* The lists of the running parse, in the order CPU, GPU, ANE.
Lists == <<cpu_watts, gpu_watts, ane_watts>>

\* The positions of list k whose sample was appended for line i by a rule.
Recorded(k, i, rule) ==
    {p \in 1..Len(Lists[k]) : Lists[k][p].line = i /\ Lists[k][p].rule = rule}

\* The channel of the most recent line before line i that the header test
\* of the parser accepts, 0 when there is none.
LastHeader(im, lines, i) ==
    LET hs == {j \in 1..(i - 1) : header(im, clean(lines[j])) # 0}
    IN  IF hs = {} THEN 0
        ELSE header(im, clean(lines[CHOOSE j \in hs : \A h \in hs : h <= j]))

\* The lines of the parsed log that hold a well-formed "Average power"
\* reading and follow a header line.
AverageLines ==
    {i \in 1..Len(p_file.lines) :
        /\ search_average(clean(p_file.lines[i])).ok
        /\ float_ok(search_average(clean(p_file.lines[i])).num)
        /\ LastHeader(impl, p_file.lines, i) # 0}

F_0p85 == float(<<"0", ".", "8", "5">>)
F_2p1 == float(N_2p1)

\* C13 as stated: when a parse has returned, every "Average power" line
\* that follows a header line has exactly one sample in the list of the
\* channel of the most recent header line before it (CPU, GPU or ANE), with
\* the value of its reading, and none in another list.
C13_SectionAttribution_asStated ==
    parse_ret = "returned" =>
        \A i \in AverageLines :
            LET K == LastHeader(impl, p_file.lines, i)
            IN  /\ Cardinality(Recorded(K, i, "average")) = 1
                /\ \A p \in Recorded(K, i, "average") :
                      Lists[K][p].w = watts(search_average(clean(p_file.lines[i])))
                /\ \A k \in (1..3) \ {K} : Recorded(k, i, "average") = {}

\* C13, amended: when a parse has returned, every "Average power" line that
\* follows a header line has exactly one sample in the list of the channel
\* of the most recent header line before it, with the value of its reading,
\* if the parser keeps a list for that channel (the ollama parser keeps
\* none for ANE, and then the reading is dropped), and none in another list.
C13_SectionAttribution ==
    parse_ret = "returned" =>
        \A i \in AverageLines :
            LET K == LastHeader(impl, p_file.lines, i)
            IN  /\ K <= Channels(impl) =>
                      /\ Cardinality(Recorded(K, i, "average")) = 1
                      /\ \A p \in Recorded(K, i, "average") :
                            Lists[K][p].w =
                                watts(search_average(clean(p_file.lines[i])))
                /\ K > Channels(impl) => Recorded(K, i, "average") = {}
                /\ \A k \in (1..3) \ {K} : Recorded(k, i, "average") = {}

\* The example of the claim has been parsed: 0.85 W for CPU, 2.1 W for GPU.
C13_Witness ==
    /\ parse_ret = "returned"
    /\ p_file.lines =
           <<L_cpuTemperature, L_average850mW, L_gpuFoo, L_average2p1W>>
    /\ Values(cpu_watts) = <<F_0p85>>
    /\ Values(gpu_watts) = <<F_2p1>>
    /\ ane_watts = <<>>

\* C14: an "Average power" line with a well-formed number that no header
\* line precedes is ignored by each of the three parsers: the parse does
\* not raise at that line, and no list holds a sample of that line.
C14_AverageBeforeHeaderIgnored ==
    \A i \in 1..Len(p_file.lines) :
        ( /\ search_average(clean(p_file.lines[i])).ok
          /\ float_ok(search_average(clean(p_file.lines[i])).num)
          /\ LastHeader(impl, p_file.lines, i + 1) = 0 )
        => /\ ~(parse_ret = "raised" /\ line_i = i)
           /\ \A k \in 1..3 : Recorded(k, i, "average") = {}

\* The readings that the rules of the parser find in line i: the direct
\* rule for each label of a list the parser keeps, and the section rule.
ReadingsOf(im, raw) ==
    {search_direct(clean(raw), k) : k \in 1..Channels(im)}
        \cup {search_average(clean(raw))}

\* C15: a line whose numeric text is malformed never aborts the parse: the
\* parser does not raise at it and no list holds a sample of it; a line
\* whose unit is not W or mW holds no reading and is passed over.
C15_MalformedNeverAborts ==
    \A i \in 1..Len(p_file.lines) :
        (\E r \in ReadingsOf(impl, p_file.lines[i]) : r.ok /\ ~float_ok(r.num))
        => /\ ~(parse_ret = "raised" /\ line_i = i)
           /\ \A k \in 1..3 : \A p \in 1..Len(Lists[k]) : Lists[k][p].line # i

\* stats of an empty list
EmptyStats == [avg |-> None, max |-> None, min |-> None, samples |-> 0]

\* C16: when the log file is missing, parse_powermetrics_log of either
\* benchmark script does not raise, and what it returns holds the
\* statistics of no samples.
C16_MissingLogEmptyStats ==
    ~p_file.exists =>
        /\ parse_ret # "raised"
        /\ parse_ret = "returned" =>
              \A k \in DOMAIN power_stats : power_stats[k] = EmptyStats

\* The float that follows x.
NextFloat(x) == Round(AddBits(x.m, <<1>>), x.e, FALSE)

\* Equal floats, or floats with no float between them.
Close(x, y) == x = y \/ y = NextFloat(x) \/ x = NextFloat(y)

\* The list that a reading under a prefix goes to in a CPU section.
ChannelOf(p) == CASE p = P_gpuPower -> 2 [] p = P_anePower -> 3 [] OTHER -> 1

\* X/1000 watts for 'X mW' in any spelling of the unit, X watts for 'X W'.
Normalized(r) ==
    IF r[2] \in {U_mW, U_MW, U_mw} THEN truediv(float(r[1]), 1000)
    ELSE float(r[1])

\* Pairs <<'X mW', '(X/1000) W'>> of the readings.
SamePower ==
    { << <<N_100, U_mW>>, <<N_0p1, U_W>> >>,
      << <<N_2p1, U_MW>>, <<N_0p0021, U_w>> >> }

\* A log of a header and two readings under one prefix was parsed: the
\* list of the prefix holds the two normalized values, in order, and the
\* other lists are empty.
UnitsNormalized ==
    (parse_ret = "returned" /\ p_file.lines \in UnitLogs) =>
        \A p \in Prefixes, r1 \in ReadingTexts, r2 \in ReadingTexts :
            p_file.lines = <<L_cpuUsage, MkReading(p, r1[1], r1[2]),
                                         MkReading(p, r2[1], r2[2])>>
            => \A k \in 1..3 :
                  Values(Lists[k]) =
                      IF k = ChannelOf(p) /\ k <= Channels(impl)
                      THEN <<Normalized(r1), Normalized(r2)>> ELSE <<>>

\* The logs that hold 'X mW' and then '(X/1000) W' under one prefix.
SamePowerLogs ==
    { <<L_cpuUsage, MkReading(p, pr[1][1], pr[1][2]),
                    MkReading(p, pr[2][1], pr[2][2])>> :
          p \in Prefixes, pr \in SamePower }

\* C17 as stated: 'X mW' is recorded as X/1000 watts and 'X W' as X watts,
\* whatever the letter case of the unit, under both rules and for every
\* channel, and 'X mW' records the same value as '(X/1000) W'.
C17_UnitNormalization_asStated ==
    /\ UnitsNormalized
    /\ (parse_ret = "returned" /\ p_file.lines \in SamePowerLogs) =>
          \A k \in 1..3 :
              Len(Lists[k]) = 2 => Lists[k][1].w = Lists[k][2].w

\* C17, amended: 'X mW' is recorded as float(X) / 1000.0 and 'X W' as
\* float(X), whatever the letter case of the unit, under both rules and for
\* every channel; the value recorded for 'X mW' and the one recorded for
\* '(X/1000) W' are equal or adjacent floats.
C17_UnitNormalization ==
    /\ UnitsNormalized
    /\ (parse_ret = "returned" /\ p_file.lines \in SamePowerLogs) =>
          \A k \in 1..3 :
              Len(Lists[k]) = 2 => Close(Lists[k][1].w, Lists[k][2].w)

\* '2.1 MW' and '0.0021 w' were parsed under the section rule and gave two
\* different values.
C17_Witness ==
    /\ parse_ret = "returned"
    /\ p_file.lines = <<L_cpuUsage, MkReading(sAveragePower, N_2p1, U_MW),
                                    MkReading(sAveragePower, N_0p0021, U_w)>>
    /\ Len(cpu_watts) = 2
    /\ cpu_watts[1].w # cpu_watts[2].w
    /\ Close(cpu_watts[1].w, cpu_watts[2].w)

\* The same log with the escape sequences removed from its lines.
Plain(lines) == [i \in 1..Len(lines) |-> ansi_sub(lines[i])]

\* C18: when the parse of a log with escape sequences in its lines has
\* ended, its lists hold the values that the parse of the same log with the
\* escape sequences removed gives, and it raised if and only if that parse
\* raises.
C18_EscapesChangeNothing ==
    ( /\ parse_ret \in {"returned", "raised"}
      /\ p_file.exists
      /\ Plain(p_file.lines) # p_file.lines )
    => LET st == ParseFrom(impl, Locals0(impl), Plain(p_file.lines), 1)
       IN  /\ st.exc = parse_exc
           /\ Values(cpu_watts) = Values(st.cpu)
           /\ Values(gpu_watts) = Values(st.gpu)
           /\ Values(ane_watts) = Values(st.ane)

\* The key of the statistics of list k.
StatsKeys == <<"cpu_watts", "gpu_watts", "ane_watts">>

\* C19: the statistics returned for a list hold its length as the sample
\* count; for a non-empty list min and max are its least and greatest
\* reading and min <= avg <= max; for an empty list min, max and avg are
\* None and the count is 0.
C19_StatsReducer ==
    parse_ret = "returned" =>
        \A k \in 1..Channels(impl) :
            LET s == power_stats[StatsKeys[k]]
                ws == Values(Lists[k])
            IN  /\ s.samples = Len(ws)
                /\ ws = <<>> => s.min = None /\ s.max = None /\ s.avg = None
                /\ ws # <<>> =>
                      /\ s.min # None /\ s.max # None /\ s.avg # None
                      /\ \E i \in 1..Len(ws) : ws[i] = s.min[1]
                      /\ \E i \in 1..Len(ws) : ws[i] = s.max[1]
                      /\ \A i \in 1..Len(ws) :
                            le(s.min[1], ws[i]) /\ le(ws[i], s.max[1])
                      /\ le(s.min[1], s.avg[1])
                      /\ le(s.avg[1], s.max[1])

\* parse_powermetrics_log(path) as one call: the locals when it returns or
\* raises.
parse_powermetrics_log(i, f) ==
    IF f.exists THEN ParseFrom(i, Locals0(i), f.lines, 1)
    ELSE [Locals0(i) EXCEPT !.exc = OpenFailure(i)]

\* What main() may find at log_path after the sampler was stopped: the file
\* is gone, it is empty (the tool printed nothing), it holds readings, or it
\* holds a line with a malformed number.
SessionFiles ==
    { [exists |-> FALSE, lines |-> <<>>],
      [exists |-> TRUE, lines |-> <<>>],
      [exists |-> TRUE, lines |-> <<L_cpuPower100mW, L_gpuPower100mW>>],
      [exists |-> TRUE, lines |-> <<L_gpuPower1p2p3W>>] }

\* What the call of parse_powermetrics_log in main() ends with, for the
\* files of the session: the exception raised, or the value returned.
Outcome(i, f) ==
    LET st == parse_powermetrics_log(i, f)
    IN  [exc |-> st.exc,
         ret |-> IF st.exc = "none" THEN Returned(i, st) ELSE NoStats]
LmsParseOutcomes == {Outcome("lms", f) : f \in SessionFiles}
OllParseOutcomes == {Outcome("ollama", f) : f \in SessionFiles}

\* The keys of the record of a unit: metrics (lms), level_result (ollama).
MetricsKeys ==
    {"model", "timestamp", "load_time_seconds", "generation_time_seconds",
     "rest_stats", "usage", "model_info", "runtime", "power", "memory",
     "derived", "files", "prompt"}
LevelKeys ==
    {"concurrency", "total_time_seconds", "avg_tps", "total_tokens",
     "ram_hwm_bytes", "power", "runs"}

\* No record has been assembled for the unit.
NoRecord ==
    [keys |-> {}, power |-> NoStats, samplers |-> 0, memory |-> {}]

(***************************************************************************)
(* The RSS poller thread (sample_ram_hwm run by _ram_thread)               *)
(***************************************************************************)

\* The keys _ram_thread stores in ram_results (lms); the nonlocal ram_hwm it
\* assigns (ollama).
RamKeys ==
    IF prog = "lms"
    THEN {"system_used_hwm_bytes", "lmstudio_rss_hwm_bytes"}
    ELSE {"ram_hwm"}

\* 'while not stop_evt.is_set()' ends the loop once the event is set:
\* sample_ram_hwm returns, _ram_thread stores what it returned and the
\* thread terminates (the two stores of the lms thread are taken as one
\* step).
RamThreadExit ==
    /\ ramThread = "running"
    /\ ram_stop_evt
    /\ ram_results' = RamKeys
    /\ ramThread' = "done"
    /\ UNCHANGED <<restVars, samplerVars, apiVars, ram_stop_evt, mainVars>>

\* The body of PowerSampler.stop() running inside main().
MainStopStep ==
    /\ pc = "in_stop"
    /\ stop_step
    /\ UNCHANGED notSampler

MainProcExits ==
    /\ ProcExits
    /\ UNCHANGED notSampler

(***************************************************************************)
(* bench_lmstudio_models.py: main(), one unit per model                    *)
(***************************************************************************)

\* for _ in range(60): the probes of ensure_server
ServerProbes == 60

\* assert_cli_tools(): without the lms CLI a RuntimeError; without
\* powermetrics only a warning is printed.
LmsAssertTools ==
    /\ prog = "lms" /\ pc = "assert_tools"
    /\ \/ pc' = "ensure_server" /\ exc' = exc
       \/ pc' = "aborted" /\ exc' = "no_cli"
    /\ UNCHANGED <<restVars, samplerVars, apiVars, ramVars>>
    /\ UNCHANGED <<prog, unit, result, workers, thread_results, records>>

\* ensure_server(): 'lms server status' inside try/except Exception, then
\* 'lms server start', of which only a CalledProcessError is caught.
LmsServerStart ==
    /\ prog = "lms" /\ pc = "ensure_server"
    /\ \/ pc' = "probe_server" /\ exc' = exc
       \/ pc' = "aborted" /\ exc' = "server_start"
    /\ UNCHANGED <<restVars, samplerVars, apiVars, ramVars>>
    /\ UNCHANGED <<prog, unit, result, workers, thread_results, records>>

\* One pass of the loop: requests.get(REST_BASE/models, timeout=1.5);
\* if r.ok: return (the loop counter is gone); any exception is swallowed;
\* time.sleep(0.5). srv_probes counts the passes that have failed.
LmsServerProbe ==
    /\ prog = "lms" /\ pc = "probe_server"
    /\ srv_probes < ServerProbes
    /\ \/ pc' = "which" /\ srv_probes' = 0
       \/ pc' = "probe_server" /\ srv_probes' = srv_probes + 1
    /\ UNCHANGED <<toolPresent, nreq, w_out, pollVars, cloudVars>>
    /\ UNCHANGED <<probeVars, parseVars, recVars>>
    /\ UNCHANGED <<samplerVars, apiVars, ramVars>>
    /\ UNCHANGED <<prog, unit, exc, result, workers, thread_results, records>>

\* The loop is exhausted: raise RuntimeError("LM Studio server didn't come
\* up ...").
LmsServerGiveUp ==
    /\ prog = "lms" /\ pc = "probe_server"
    /\ srv_probes = ServerProbes
    /\ pc' = "aborted" /\ exc' = "server"
    /\ UNCHANGED <<restVars, samplerVars, apiVars, ramVars>>
    /\ UNCHANGED <<prog, unit, result, workers, thread_results, records>>

\* models = list_models(): raise_for_status, r.json(), the 'lms ls'
\* fallback; if not models: sys.exit(1)
LmsListModels ==
    /\ prog = "lms" /\ pc = "list"
    /\ \/ pc' = "load" /\ exc' = exc
       \/ pc' = "aborted" /\ exc' = "list"
       \/ pc' = "aborted" /\ exc' = "exit"
    /\ UNCHANGED <<restVars, samplerVars, apiVars, ramVars>>
    /\ UNCHANGED <<prog, unit, result, workers, thread_results, records>>

\* sampler_combo = None; if shutil.which("powermetrics"):
LmsWhich ==
    /\ prog = "lms" /\ pc = "which"
    /\ pc' = IF toolPresent THEN "probe" ELSE "list"
    /\ UNCHANGED <<restVars, samplerVars, apiVars, ramVars>>
    /\ UNCHANGED <<prog, unit, exc, result, workers, thread_results, records>>

\* detect_powermetrics_samplers(samples=3, interval_ms=500) is running.
LmsProbeStep ==
    /\ prog = "lms" /\ pc = "probe"
    /\ (ProbeInvoke \/ ProbeReturnNone)

\* sampler_combo = <the value returned>; the locals of the call are gone.
LmsProbeReturn ==
    /\ prog = "lms" /\ pc = "probe"
    /\ probe_ret \in {"selected", "None"}
    /\ sampler_combo' = probe_sel
    /\ probe_i' = 1
    /\ probe_log' = <<>>
    /\ last_err' = FALSE
    /\ pc' = "list"
    /\ UNCHANGED <<toolPresent, otherVars, probe_ret, probe_sel, probe_calls>>
    /\ UNCHANGED <<parseVars, recVars>>
    /\ UNCHANGED <<samplerVars, apiVars, ramVars>>
    /\ UNCHANGED <<prog, unit, exc, result, workers, thread_results, records>>

\* unload_all(); load_model(model): 'lms load' runs with check=True.
LmsLoad ==
    /\ prog = "lms" /\ pc = "load"
    /\ \/ pc' = "new" /\ exc' = exc
       \/ pc' = "aborted" /\ exc' = "load"
    /\ UNCHANGED <<restVars, samplerVars, apiVars, ramVars>>
    /\ UNCHANGED <<prog, unit, result, workers, thread_results, records>>

\* psamp = PowerSampler(str(log_path), sampler_combo=sampler_combo, ...)
LmsNew ==
    /\ prog = "lms" /\ pc = "new"
    /\ PowerSamplerNew(sampler_combo)
    /\ nreq' = [w \in 1..NUnits |-> 0]
    /\ pc' = "psamp_start"
    /\ UNCHANGED <<restButNreq, pstate, pconf, apiVars, ramVars>>
    /\ UNCHANGED <<prog, unit, exc, result, workers, thread_results, records>>

\* psamp.start(); ram_stop_evt = threading.Event(); ram_results = {};
\* t = threading.Thread(...): the names now denote the objects of this unit
\* (a poller of the unit before keeps its own). An exception of start() is
\* not caught anywhere in main().
LmsPsampStart ==
    /\ prog = "lms" /\ pc = "psamp_start"
    /\ start
    /\ IF startSpawns
       THEN /\ pc' = "ram_start" /\ exc' = exc
            /\ ram_stop_evt' = FALSE
            /\ ramThread' = "none"
            /\ ram_results' = {}
       ELSE /\ pc' = "aborted" /\ exc' = "start"
            /\ UNCHANGED ramVars
    /\ UNCHANGED <<restVars, apiVars>>
    /\ UNCHANGED <<prog, unit, result, workers, thread_results, records>>

\* t = threading.Thread(...); t.start(): outside the try block; Thread.start
\* raises RuntimeError when no thread can be started.
LmsRamStart ==
    /\ prog = "lms" /\ pc = "ram_start"
    /\ \/ ramThread' = "running" /\ pc' = "chat" /\ exc' = exc
       \/ ramThread' = ramThread /\ pc' = "aborted" /\ exc' = "thread_start"
    /\ UNCHANGED <<restVars, samplerVars, apiVars, ram_stop_evt, ram_results>>
    /\ UNCHANGED <<prog, unit, result, workers, thread_results, records>>

\* chat_once: requests.post(REST_BASE/chat/completions, timeout=600)
LmsChatPostRest ==
    /\ prog = "lms" /\ pc = "chat"
    /\ pc' = "rest_wait"
    /\ nreq' = [nreq EXCEPT ![1] = @ + 1]
    /\ UNCHANGED <<restButNreq, samplerVars, apiVars, ramVars>>
    /\ UNCHANGED <<prog, unit, exc, result, workers, thread_results, records>>

RestOutcomes == {"good", "nochoices", "bad_status", "error"}

\* The REST answer: r.ok returns r.json(); anything else falls through to /v1.
LmsRestRespond ==
    /\ prog = "lms" /\ pc = "rest_wait"
    /\ \E o \in RestOutcomes :
          IF o \in {"good", "nochoices"}
          THEN result' = o /\ pc' = "finally"
          ELSE result' = result /\ pc' = "v1_post"
    /\ UNCHANGED <<restVars, samplerVars, apiVars, ramVars>>
    /\ UNCHANGED <<prog, unit, exc, workers, thread_results, records>>

\* timeout=600 expires: the exception is swallowed by 'except Exception: pass'.
LmsRestTimeout ==
    /\ prog = "lms" /\ pc = "rest_wait"
    /\ pc' = "v1_post"
    /\ UNCHANGED <<restVars, samplerVars, apiVars, ramVars>>
    /\ UNCHANGED <<prog, unit, exc, result, workers, thread_results, records>>

\* chat_once: requests.post(OPENAI_BASE/chat/completions, timeout=600)
LmsChatPostV1 ==
    /\ prog = "lms" /\ pc = "v1_post"
    /\ pc' = "v1_wait"
    /\ nreq' = [nreq EXCEPT ![2] = @ + 1]
    /\ UNCHANGED <<restButNreq, samplerVars, apiVars, ramVars>>
    /\ UNCHANGED <<prog, unit, exc, result, workers, thread_results, records>>

\* The /v1 answer: r.raise_for_status(); return r.json(). A failure leaves
\* chat_once as an exception and enters the finally block of main().
LmsV1Respond ==
    /\ prog = "lms" /\ pc = "v1_wait"
    /\ \E o \in RestOutcomes :
          IF o \in {"good", "nochoices"}
          THEN result' = o /\ exc' = exc
          ELSE result' = result /\ exc' = "request"
    /\ pc' = "finally"
    /\ UNCHANGED <<restVars, samplerVars, apiVars, ramVars>>
    /\ UNCHANGED <<prog, unit, workers, thread_results, records>>

\* A timeout after which the request is sent again.
LmsV1Timeout_retry ==
    /\ prog = "lms" /\ pc = "v1_wait"
    /\ pc' = "v1_post"
    /\ UNCHANGED <<restVars, samplerVars, apiVars, ramVars>>
    /\ UNCHANGED <<prog, unit, exc, result, workers, thread_results, records>>

\* timeout=600 expires: the exception leaves chat_once.
LmsV1Timeout ==
    /\ prog = "lms" /\ pc = "v1_wait"
    /\ exc' = "request"
    /\ pc' = "finally"
    /\ UNCHANGED <<restVars, samplerVars, apiVars, ramVars>>
    /\ UNCHANGED <<prog, unit, result, workers, thread_results, records>>

\* finally: ram_stop_evt.set()
LmsFinallySet ==
    /\ prog = "lms" /\ pc = "finally"
    /\ ram_stop_evt' = TRUE
    /\ pc' = "join"
    /\ UNCHANGED <<restVars, samplerVars, apiVars, ramThread, ram_results>>
    /\ UNCHANGED <<prog, unit, exc, result, workers, thread_results, records>>

\* t.join(timeout=3): returns when the thread has ended or after 3 seconds.
LmsJoin ==
    /\ prog = "lms" /\ pc = "join"
    /\ pc' = "stop"
    /\ UNCHANGED <<restVars, samplerVars, apiVars, ramVars>>
    /\ UNCHANGED <<prog, unit, exc, result, workers, thread_results, records>>

\* psamp.stop()
LmsStopCall ==
    /\ prog = "lms" /\ pc = "stop"
    /\ stop_enter
    /\ pc' = "in_stop"
    /\ UNCHANGED <<restVars, apiVars, ramVars>>
    /\ UNCHANGED <<prog, unit, exc, result, workers, thread_results, records>>

\* The finally block ends: a pending exception of chat_once goes on out of
\* main(), which has no handler for it.
LmsStopReturn ==
    /\ prog = "lms" /\ pc = "in_stop"
    /\ stopPc \in {"returned", "raised"}
    /\ exc' = IF stopPc = "raised" THEN "stop" ELSE exc
    /\ pc' = IF exc' # "none" THEN "aborted" ELSE "parse"
    /\ UNCHANGED <<restVars, samplerVars, apiVars, ramVars>>
    /\ UNCHANGED <<prog, unit, result, workers, thread_results, records>>

\* power_stats = parse_powermetrics_log(str(log_path)): an exception of the
\* parser is not caught anywhere in main().
LmsParse ==
    /\ prog = "lms" /\ pc = "parse"
    /\ \E o \in LmsParseOutcomes :
          IF o.exc # "none"
          THEN pc' = "aborted" /\ exc' = "parse"
               /\ power_stats' = power_stats
          ELSE pc' = "extract" /\ exc' = exc
               /\ power_stats' = o.ret
    /\ UNCHANGED <<toolPresent, otherVars, probeVars, parseVars, rec_body>>
    /\ UNCHANGED <<samplerVars, apiVars, ramVars>>
    /\ UNCHANGED <<prog, unit, result, workers, thread_results, records>>

\* text = result["choices"][0]["message"]["content"]: no handler around it.
LmsExtract ==
    /\ prog = "lms" /\ pc = "extract"
    /\ IF result = "good"
       THEN pc' = "write" /\ exc' = exc
       ELSE pc' = "aborted" /\ exc' = "malformed"
    /\ UNCHANGED <<restVars, samplerVars, apiVars, ramVars>>
    /\ UNCHANGED <<prog, unit, result, workers, thread_results, records>>

\* if ... and sampler_combo: power_stats["samplers"] = sampler_combo;
\* metrics = {...}; json_path.write_text(json.dumps(metrics)); the loop goes
\* to the next model.
LmsWrite ==
    /\ prog = "lms" /\ pc = "write"
    /\ records' = [records EXCEPT ![unit] = "ok"]
    /\ rec_body' = [rec_body EXCEPT ![unit] =
           [keys |-> MetricsKeys, power |-> power_stats,
            samplers |-> sampler_combo, memory |-> ram_results]]
    /\ unit' = unit + 1
    /\ pc' = IF unit < NUnits THEN "load" ELSE "done"
    /\ result' = "none"
    /\ UNCHANGED <<toolPresent, otherVars, probeVars, parseVars, power_stats>>
    /\ UNCHANGED <<samplerVars, apiVars, ramVars>>
    /\ UNCHANGED <<prog, exc, workers, thread_results>>

NextLms ==
    \/ LmsAssertTools \/ LmsServerStart \/ LmsServerProbe \/ LmsServerGiveUp
    \/ LmsWhich \/ LmsProbeStep \/ LmsProbeReturn
    \/ LmsListModels \/ LmsLoad \/ LmsNew \/ LmsPsampStart \/ LmsRamStart
    \/ LmsChatPostRest \/ LmsRestTimeout
    \/ LmsChatPostV1 \/ LmsV1Timeout
    \/ LmsFinallySet \/ LmsJoin \/ LmsStopCall \/ LmsStopReturn
    \/ LmsParse \/ LmsExtract \/ LmsWrite

(***************************************************************************)
(* bench_ollama_concurrent_models.py: main(), one unit per level           *)
(***************************************************************************)

\* CONCURRENCY_LEVELS = [1, 2, 3, ...], cut to the first NUnits levels.
CONCURRENCY_LEVELS == [i \in 1..NUnits |-> i]

\* __main__: requests.get(OLLAMA_API_BASE, timeout=1.5): the status of the
\* answer is not looked at; a ConnectionError prints a message and
\* sys.exit(1); any other exception (a read timeout) is not caught.
OllStartupCheck ==
    /\ prog = "ollama" /\ pc = "startup"
    /\ \/ pc' = "new" /\ exc' = exc
       \/ pc' = "aborted" /\ exc' = "exit"
       \/ pc' = "aborted" /\ exc' = "startup"
    /\ UNCHANGED <<restVars, samplerVars, apiVars, ramVars>>
    /\ UNCHANGED <<prog, unit, result, workers, thread_results, records>>

\* psamp = PowerSampler(str(log_path), interval_ms=...): sampler_combo takes
\* its default, None. ram_stop_evt = threading.Event(); ram_hwm = 0;
\* ram_sampler_thread = Thread(...); threads = []; thread_results = []
OllNew ==
    /\ prog = "ollama" /\ pc = "new"
    /\ PowerSamplerNew(0)
    /\ ram_stop_evt' = FALSE
    /\ ramThread' = "none"
    /\ workers' = <<>>
    /\ thread_results' = <<>>
    /\ ram_results' = {}
    /\ nreq' = [w \in 1..NUnits |-> 0]
    /\ w_out' = [w \in 1..NUnits |-> "none"]
    /\ pc' = "psamp_start"
    /\ UNCHANGED <<restButWorkers, pstate, pconf, apiVars>>
    /\ UNCHANGED <<prog, unit, exc, result, records>>

\* psamp.start(): no handler around it.
OllPsampStart ==
    /\ prog = "ollama" /\ pc = "psamp_start"
    /\ start
    /\ IF startSpawns
       THEN pc' = "ram_start" /\ exc' = exc
       ELSE pc' = "aborted" /\ exc' = "start"
    /\ UNCHANGED <<restVars, apiVars, ramVars>>
    /\ UNCHANGED <<prog, unit, result, workers, thread_results, records>>

\* ram_sampler_thread.start()
OllRamStart ==
    /\ prog = "ollama" /\ pc = "ram_start"
    /\ \/ ramThread' = "running" /\ pc' = "spawn" /\ exc' = exc
       \/ ramThread' = ramThread /\ pc' = "aborted" /\ exc' = "thread_start"
    /\ UNCHANGED <<restVars, samplerVars, apiVars, ram_stop_evt, ram_results>>
    /\ UNCHANGED <<prog, unit, result, workers, thread_results, records>>

\* for _ in range(concurrency): thread = Thread(target=generate_once, ...);
\* threads.append(thread); thread.start()
OllSpawnWorker ==
    /\ prog = "ollama" /\ pc = "spawn"
    /\ \/ /\ workers' = Append(workers, "started")
          /\ pc' = IF Len(workers') = CONCURRENCY_LEVELS[unit]
                   THEN "join_workers" ELSE "spawn"
          /\ exc' = exc
       \/ /\ workers' = workers
          /\ pc' = "aborted"
          /\ exc' = "thread_start"
    /\ UNCHANGED <<restVars, samplerVars, apiVars, ramVars>>
    /\ UNCHANGED <<prog, unit, result, thread_results, records>>

\* generate_once: requests.post(OLLAMA_API_BASE/api/generate, json=payload):
\* no timeout argument.
WorkerPost(w) ==
    /\ prog = "ollama"
    /\ workers[w] = "started"
    /\ workers' = [workers EXCEPT ![w] = "pending"]
    /\ nreq' = [nreq EXCEPT ![w] = @ + 1]
    /\ UNCHANGED <<restButNreq, samplerVars, apiVars, ramVars>>
    /\ UNCHANGED <<prog, pc, unit, exc, result, thread_results, records>>

\* "bad_body": the answer is JSON that the lines after r.json() cannot
\* use (a TypeError or AttributeError, caught by 'except Exception').
GenerateOutcomes ==
    {"ok", "bad_status", "network_error", "bad_json", "bad_body"}

\* The exceptions 'except requests.RequestException' catches.
RequestExceptions == {"bad_status", "network_error"}

\* A generate_once without the 'except Exception' branch: the thread ends
\* with the exception and appends nothing.
WorkerRespond_noCatchAll(w) ==
    /\ prog = "ollama"
    /\ workers[w] = "pending"
    /\ \E o \in GenerateOutcomes :
          /\ thread_results' =
                 IF o = "ok" THEN Append(thread_results, "ok")
                 ELSE IF o \in RequestExceptions
                 THEN Append(thread_results, "err")
                 ELSE thread_results
          /\ w_out' = [w_out EXCEPT ![w] =
                           IF o = "ok" THEN "succeeded" ELSE "failed"]
    /\ workers' = [workers EXCEPT ![w] = "done"]
    /\ UNCHANGED <<restButWorkers, nreq, samplerVars, apiVars, ramVars>>
    /\ UNCHANGED <<prog, pc, unit, exc, result, records>>

\* generate_once: the answer arrives; success and both except branches each
\* append one entry to result_list.
WorkerRespond(w) ==
    /\ prog = "ollama"
    /\ workers[w] = "pending"
    /\ \E o \in GenerateOutcomes :
          /\ thread_results' =
                 IF o = "ok" THEN Append(thread_results, "ok")
                 ELSE IF o \in RequestExceptions
                 THEN Append(thread_results, "err")
                 ELSE Append(thread_results, "err")
          /\ w_out' = [w_out EXCEPT ![w] =
                           IF o = "ok" THEN "succeeded" ELSE "failed"]
    /\ workers' = [workers EXCEPT ![w] = "done"]
    /\ UNCHANGED <<restButWorkers, nreq, samplerVars, apiVars, ramVars>>
    /\ UNCHANGED <<prog, pc, unit, exc, result, records>>

OllWorkerPost == \E w \in 1..Len(workers) : WorkerPost(w)
OllWorkerRespond == \E w \in 1..Len(workers) : WorkerRespond(w)

\* A join of the first thread only.
OllJoinWorkers_first ==
    /\ prog = "ollama" /\ pc = "join_workers"
    /\ workers[1] = "done"
    /\ pc' = "finally"
    /\ UNCHANGED <<restVars, samplerVars, apiVars, ramVars>>
    /\ UNCHANGED <<prog, unit, exc, result, workers, thread_results, records>>

\* for thread in threads: thread.join()
OllJoinWorkers ==
    /\ prog = "ollama" /\ pc = "join_workers"
    /\ \A w \in 1..Len(workers) : workers[w] = "done"
    /\ pc' = "finally"
    /\ UNCHANGED <<restVars, samplerVars, apiVars, ramVars>>
    /\ UNCHANGED <<prog, unit, exc, result, workers, thread_results, records>>

\* ram_stop_evt.set()
OllFinallySet ==
    /\ prog = "ollama" /\ pc = "finally"
    /\ ram_stop_evt' = TRUE
    /\ pc' = "join"
    /\ UNCHANGED <<restVars, samplerVars, apiVars, ramThread, ram_results>>
    /\ UNCHANGED <<prog, unit, exc, result, workers, thread_results, records>>

\* ram_sampler_thread.join(): no timeout.
OllJoinRam ==
    /\ prog = "ollama" /\ pc = "join"
    /\ ramThread = "done"
    /\ pc' = "stop"
    /\ UNCHANGED <<restVars, samplerVars, apiVars, ramVars>>
    /\ UNCHANGED <<prog, unit, exc, result, workers, thread_results, records>>

\* psamp.stop()
OllStopCall ==
    /\ prog = "ollama" /\ pc = "stop"
    /\ stop_enter
    /\ pc' = "in_stop"
    /\ UNCHANGED <<restVars, apiVars, ramVars>>
    /\ UNCHANGED <<prog, unit, exc, result, workers, thread_results, records>>

OllStopReturn ==
    /\ prog = "ollama" /\ pc = "in_stop"
    /\ stopPc \in {"returned", "raised"}
    /\ exc' = IF stopPc = "raised" THEN "stop" ELSE exc
    /\ pc' = IF exc' # "none" THEN "aborted" ELSE "parse"
    /\ UNCHANGED <<restVars, samplerVars, apiVars, ramVars>>
    /\ UNCHANGED <<prog, unit, result, workers, thread_results, records>>

\* power_stats = parse_powermetrics_log(str(log_path)): an exception of the
\* parser is not caught anywhere in main().
OllParse ==
    /\ prog = "ollama" /\ pc = "parse"
    /\ \E o \in OllParseOutcomes :
          IF o.exc # "none"
          THEN pc' = "aborted" /\ exc' = "parse"
               /\ power_stats' = power_stats
          ELSE pc' = "assemble" /\ exc' = exc
               /\ power_stats' = o.ret
    /\ UNCHANGED <<toolPresent, otherVars, probeVars, parseVars, rec_body>>
    /\ UNCHANGED <<samplerVars, apiVars, ramVars>>
    /\ UNCHANGED <<prog, unit, result, workers, thread_results, records>>

HasOk(rs) == \E i \in 1..Len(rs) : rs[i] = "ok"
HasErr(rs) == \E i \in 1..Len(rs) : rs[i] = "err"

\* successful_runs empty: 'continue', nothing is appended for the level;
\* otherwise all_results.append(level_result), whose "runs" carry the errors.
OllAssemble ==
    /\ prog = "ollama" /\ pc = "assemble"
    /\ records' = IF HasOk(thread_results)
                  THEN [records EXCEPT ![unit] =
                            IF HasErr(thread_results) THEN "error" ELSE "ok"]
                  ELSE records
    /\ rec_body' = IF HasOk(thread_results)
                   THEN [rec_body EXCEPT ![unit] =
                            [keys |-> LevelKeys, power |-> power_stats,
                             samplers |-> 0, memory |-> ram_results]]
                   ELSE rec_body
    /\ unit' = unit + 1
    /\ pc' = IF unit < NUnits THEN "new" ELSE "save"
    /\ UNCHANGED <<toolPresent, otherVars, probeVars, parseVars, power_stats>>
    /\ UNCHANGED <<samplerVars, apiVars, ramVars>>
    /\ UNCHANGED <<prog, exc, result, workers, thread_results>>

\* json.dump(all_results, f) into summary_report.json
OllSave ==
    /\ prog = "ollama" /\ pc = "save"
    /\ pc' = "done"
    /\ UNCHANGED <<restVars, samplerVars, apiVars, ramVars>>
    /\ UNCHANGED <<prog, unit, exc, result, workers, thread_results, records>>

NextOllama ==
    \/ OllStartupCheck
    \/ OllNew \/ OllPsampStart \/ OllRamStart \/ OllSpawnWorker
    \/ OllWorkerPost \/ OllJoinWorkers
    \/ OllFinallySet \/ OllJoinRam \/ OllStopCall \/ OllStopReturn
    \/ OllParse \/ OllAssemble \/ OllSave

(***************************************************************************)
(* Spec: a benchmarking session of either script                           *)
(***************************************************************************)
Init ==
    /\ toolPresent \in BOOLEAN
    /\ prog \in {"lms", "ollama"}
    /\ pc = IF prog = "lms" THEN "assert_tools" ELSE "startup"
    /\ unit = 1
    /\ exc = "none"
    /\ proc = 0
    /\ pstate = <<>>
    /\ spawned = 0
    /\ stopPc = "none"
    /\ stopEvents = <<>>
    /\ self_combo = 0
    /\ pconf = <<>>
    /\ ncalls = 0
    /\ lastCall = "none"
    /\ ram_stop_evt = FALSE
    /\ ramThread = "none"
    /\ ram_results = {}
    /\ nreq = [w \in 1..NUnits |-> 0]
    /\ w_out = [w \in 1..NUnits |-> "none"]
    /\ srv_probes = 0
    /\ PollUnused
    /\ CloudUnused
    /\ result = "none"
    /\ workers = <<>>
    /\ thread_results = <<>>
    /\ records = [u \in 1..NUnits |-> "none"]
    /\ ProbeIdle
    /\ impl = "none"
    /\ p_file = [exists |-> TRUE, lines |-> <<>>]
    /\ ParseIdle
    /\ power_stats = NoStats
    /\ rec_body = [u \in 1..NUnits |-> NoRecord]

\* What the scripts themselves do (timeouts included).
ProgramStep == NextLms \/ NextOllama \/ MainStopStep \/ RamThreadExit

\* What the backend and the sampler process do.
BackendStep == LmsRestRespond \/ LmsV1Respond \/ OllWorkerRespond

Next == ProgramStep \/ BackendStep \/ MainProcExits

Spec == Init /\ [][Next]_vars

\* Every thread of the script keeps running; the backend need not answer.
FairSpec == Spec /\ WF_vars(ProgramStep)

(***************************************************************************)
(* sample_ram_hwm: the RSS poller, tick by tick (SpecPoller)               *)
(***************************************************************************)

\* What the poller's actions leave alone.
notPoll ==
    <<toolPresent, auxVars, cloudVars, samplerVars, apiVars, ramThread,
      ram_results, mainVars, probeVars, parseVars, recVars>>

\* p.info["memory_info"] of a matching process: an rss in bytes, or None
\* (psutil's ad_value) when the process denied access or is gone.
Denied == -1

\* What one tick can read: vm.total - vm.available, and memory_info of the
\* matching processes.
TickReadings ==
    [sys_used : {1, 2},
     procs : {<<>>, <<1>>, <<2>>, <<1, 2>>, <<Denied>>, <<Denied, 2>>}]

\* rss_sum += p.info["memory_info"].rss over the matching processes. None
\* has no attribute rss: the AttributeError is caught (except Exception) in
\* bench_lmstudio_models.py and the process is skipped.
RECURSIVE rss_sum(_)
rss_sum(procs) ==
    IF procs = <<>> THEN 0
    ELSE (IF Head(procs) = Denied THEN 0 ELSE Head(procs))
         + rss_sum(Tail(procs))

\* bench_ollama_concurrent_models.py catches only NoSuchProcess and
\* AccessDenied around the same statement: the AttributeError leaves
\* sample_ram_hwm.
TickRaises(p, procs) ==
    p = "ollama" /\ \E i \in 1..Len(procs) : procs[i] = Denied

\* A maximum that is the value of the last tick.
running_max_last(hwm, v) == v

\* max(lmstudio_hwm, rss_sum); max(sys_hwm, sys_used)
running_max(hwm, v) == IF v > hwm THEN v ELSE hwm

\* One pass of 'while not stop_evt.is_set():', time.sleep(interval) included.
PollTick ==
    /\ ramThread = "running" /\ poll_ret = <<>>
    /\ ~ram_stop_evt
    /\ Len(poll_ticks) < MaxTicks
    /\ \E r \in TickReadings :
          IF TickRaises(prog, r.procs)
          THEN /\ poll_ret' = <<"raised">>
               /\ UNCHANGED <<poll_ticks, sys_hwm, lmstudio_hwm>>
          ELSE /\ poll_ticks' =
                      Append(poll_ticks, <<r.sys_used, rss_sum(r.procs)>>)
               /\ sys_hwm' = IF prog = "lms"
                              THEN running_max(sys_hwm, r.sys_used)
                              ELSE sys_hwm
               /\ lmstudio_hwm' = running_max(lmstudio_hwm, rss_sum(r.procs))
               /\ poll_ret' = poll_ret
    /\ UNCHANGED <<ram_stop_evt, notPoll>>

\* main(): ram_stop_evt.set()
PollStop ==
    /\ ~ram_stop_evt
    /\ ram_stop_evt' = TRUE
    /\ UNCHANGED <<pollVars, notPoll>>

\* The loop test finds the event set: return sys_hwm, lmstudio_hwm (lms),
\* return ollama_hwm (ollama).
PollReturn ==
    /\ ramThread = "running" /\ poll_ret = <<>>
    /\ ram_stop_evt
    /\ poll_ret' = IF prog = "lms"
                   THEN <<"returned", sys_hwm, lmstudio_hwm>>
                   ELSE <<"returned", lmstudio_hwm>>
    /\ UNCHANGED <<poll_ticks, sys_hwm, lmstudio_hwm, ram_stop_evt, notPoll>>

InitPoller ==
    /\ prog \in {"lms", "ollama"}
    /\ pc = "poll"
    /\ ramThread = "running"
    /\ ram_stop_evt = FALSE
    /\ ram_results = {}
    /\ PollUnused
    /\ toolPresent = TRUE
    /\ AuxUnused
    /\ CloudUnused
    /\ ProbeIdle
    /\ ParseUnused
    /\ proc = 0
    /\ pstate = <<>>
    /\ spawned = 0
    /\ stopPc = "none"
    /\ stopEvents = <<>>
    /\ self_combo = 0
    /\ pconf = <<>>
    /\ ncalls = 0
    /\ lastCall = "none"
    /\ unit = 0
    /\ exc = "none"
    /\ result = "none"
    /\ workers = <<>>
    /\ thread_results = <<>>
    /\ records = <<>>

NextPoller == PollTick \/ PollStop \/ PollReturn

SpecPoller == InitPoller /\ [][NextPoller]_vars

(***************************************************************************)
(* bench_openrouter_models.py: main(), one unit per listed model           *)
(***************************************************************************)

\* What main()'s executors leave alone.
notCloud ==
    <<toolPresent, auxVars, pollVars, samplerVars, apiVars, ramVars,
      mainVars, probeVars, parseVars, recVars>>

\* The character class [A-Za-z0-9_.-] of the file-name pattern.
SafeChar(c) ==
    c \in Uppers \cup Range(LowerSeq) \cup Digits \cup {"_", ".", "-"}

\* First index at or after i whose character is in the class.
RECURSIVE RunEnd(_, _)
RunEnd(s, i) ==
    IF i > Len(s) \/ SafeChar(s[i]) THEN i ELSE RunEnd(s, i + 1)

\* re.sub(r"[^A-Za-z0-9_.-]+", "_", s): every maximal run of other
\* characters becomes one underscore.
RECURSIVE sub_unsafe(_, _)
sub_unsafe(s, i) ==
    IF i > Len(s) THEN <<>>
    ELSE IF SafeChar(s[i]) THEN <<s[i]>> \o sub_unsafe(s, i + 1)
    ELSE <<"_">> \o sub_unsafe(s, RunEnd(s, i))

\* The slice [:200] of safe_model.
SafeNameMax == 200

\* safe_model = re.sub(...)[:200]; json_path = OUT_DIR / f"{safe_model}.json"
safe_model(model_id) ==
    LET t == sub_unsafe(model_id, 1)
    IN  SubSeq(t, 1, IF Len(t) < SafeNameMax THEN Len(t) ELSE SafeNameMax)

\* The lines of the models file.
M_aSlashB == <<"a", "/", "b">>
M_aUnderB == <<"a", "_", "b">>
M_report == <<"r", "e", "p", "o", "r", "t">>
ModelIds == {M_aSlashB, M_aUnderB, M_report}

\* The stems of the record files the listed models can have.
Stems == {safe_model(id) : id \in ModelIds}

\* get_report_data: if json_file.name == 'report.json': continue
ReportStem == <<"r", "e", "p", "o", "r", "t">>

Tasks == 1..Len(c_models)
json_path(t) == safe_model(c_models[t])

\* A benchmark_model call that has returned or raised.
Ended(t) == c_task[t] \in {"done", "skipped", "raised"}
Running(t) == c_task[t] # "queued" /\ ~Ended(t)

\* get_report_data: the record files loaded, and those whose content does
\* not parse (JSONDecodeError: an empty or a garbled file).
Loaded == {f \in Stems : f # ReportStem /\ c_files[f] = "complete"}
Corrupted ==
    {f \in Stems : f # ReportStem /\ c_files[f] \in {"empty", "garbled"}}

\* update_report, first half: data = get_report_data(report_dir)
ReportRead(e) ==
    /\ c_data' = [c_data EXCEPT ![e] = <<Loaded>>]
    /\ c_skipped' = c_skipped \cup Corrupted

\* update_report, second half: (report_dir / "index.html").write_text(...)
ReportWrite(e) ==
    /\ c_index' = c_data[e]
    /\ c_data' = [c_data EXCEPT ![e] = <<>>]

\* main(): openrouter_report.update_report(OUT_DIR), before the pool
MainInitialRead ==
    /\ c_pc = "initial_report"
    /\ ReportRead(0)
    /\ c_pc' = "initial_write"
    /\ UNCHANGED <<c_models, c_conc, c_task, c_files, c_lock, c_index>>
    /\ UNCHANGED <<c_req, c_did, notCloud>>

MainInitialWrite ==
    /\ c_pc = "initial_write"
    /\ ReportWrite(0)
    /\ c_pc' = "pool"
    /\ UNCHANGED <<c_models, c_conc, c_task, c_files, c_lock, c_skipped>>
    /\ UNCHANGED <<c_req, c_did, notCloud>>

\* ThreadPoolExecutor(max_workers=args.concurrency): a free worker takes the
\* next submitted call from the queue.
TaskStart(t) ==
    /\ c_pc = "pool"
    /\ c_task[t] = "queued"
    /\ \A u \in 1..(t - 1) : c_task[u] # "queued"
    /\ Cardinality({u \in Tasks : Running(u)}) < c_conc
    /\ c_task' = [c_task EXCEPT ![t] = "exists"]
    /\ UNCHANGED <<c_pc, c_models, c_conc, c_files, c_lock, c_data>>
    /\ UNCHANGED <<c_index, c_req, c_did, c_skipped, notCloud>>

\* benchmark_model: if json_path.exists(): return
TaskExists(t) ==
    /\ c_task[t] = "exists"
    /\ c_task' = [c_task EXCEPT ![t] =
                     IF c_files[json_path(t)] # "absent"
                     THEN "skipped" ELSE "request"]
    /\ UNCHANGED <<c_pc, c_models, c_conc, c_files, c_lock, c_data>>
    /\ UNCHANGED <<c_index, c_req, c_did, c_skipped, notCloud>>

\* chat_once: without OPENROUTER_API_KEY a ValueError, caught by
\* benchmark_model as gen_error; else one requests.post.
TaskRequest(t) ==
    /\ c_task[t] = "request"
    /\ \/ /\ c_task' = [c_task EXCEPT ![t] = "json_open"]
          /\ UNCHANGED <<c_req, c_did>>
       \/ /\ c_task' = [c_task EXCEPT ![t] = "wait"]
          /\ c_req' = [c_req EXCEPT ![t] = @ + 1]
          /\ c_did' = [c_did EXCEPT ![t] = @ \cup {"request"}]
    /\ UNCHANGED <<c_pc, c_models, c_conc, c_files, c_lock, c_data>>
    /\ UNCHANGED <<c_index, c_skipped, notCloud>>

\* The answer, an error status, a network error or the timeout: an exception
\* of chat_once becomes gen_error and the artifacts are not written.
TaskRespond(t) ==
    /\ c_task[t] = "wait"
    /\ \E ok \in BOOLEAN :
          c_task' = [c_task EXCEPT ![t] = IF ok THEN "save" ELSE "json_open"]
    /\ UNCHANGED <<c_pc, c_models, c_conc, c_files, c_lock, c_data>>
    /\ UNCHANGED <<c_index, c_req, c_did, c_skipped, notCloud>>

\* raw_text_path.write_text(text) inside try/except;
\* html_path.write_text(html) outside any handler.
TaskSave(t) ==
    /\ c_task[t] = "save"
    /\ \/ /\ c_task' = [c_task EXCEPT ![t] = "json_open"]
          /\ c_did' = [c_did EXCEPT ![t] = @ \cup {"html"}]
       \/ /\ c_task' = [c_task EXCEPT ![t] = "raised"]
          /\ c_did' = c_did
    /\ UNCHANGED <<c_pc, c_models, c_conc, c_files, c_lock, c_data>>
    /\ UNCHANGED <<c_index, c_req, c_skipped, notCloud>>

\* json_path.write_text(...): open(json_path, "w") truncates the file.
TaskJsonOpen(t) ==
    /\ c_task[t] = "json_open"
    /\ c_files' = [c_files EXCEPT ![json_path(t)] = "empty"]
    /\ c_did' = [c_did EXCEPT ![t] = @ \cup {"json"}]
    /\ c_task' = [c_task EXCEPT ![t] = "json_close"]
    /\ UNCHANGED <<c_pc, c_models, c_conc, c_lock, c_data>>
    /\ UNCHANGED <<c_index, c_req, c_skipped, notCloud>>

\* json_path.write_text(...): the text is written from offset 0 and the file
\* is closed. Over the text another writer has put there since the truncation
\* the result is this text, or this text followed by the rest of the other.
TaskJsonClose(t) ==
    /\ c_task[t] = "json_close"
    /\ \E c \in IF c_files[json_path(t)] = "empty"
                THEN {"complete"} ELSE {"complete", "garbled"} :
          c_files' = [c_files EXCEPT ![json_path(t)] = c]
    /\ c_task' = [c_task EXCEPT ![t] = "lock"]
    /\ UNCHANGED <<c_pc, c_models, c_conc, c_lock, c_data>>
    /\ UNCHANGED <<c_index, c_req, c_did, c_skipped, notCloud>>

\* The lock is taken whoever holds it.
TaskLock_noLock(t) ==
    /\ c_task[t] = "lock"
    /\ c_lock' = t
    /\ c_task' = [c_task EXCEPT ![t] = "report"]
    /\ UNCHANGED <<c_pc, c_models, c_conc, c_files, c_data>>
    /\ UNCHANGED <<c_index, c_req, c_did, c_skipped, notCloud>>

\* with report_lock: (acquire)
TaskLock(t) ==
    /\ c_task[t] = "lock"
    /\ c_lock = 0
    /\ c_lock' = t
    /\ c_task' = [c_task EXCEPT ![t] = "report"]
    /\ UNCHANGED <<c_pc, c_models, c_conc, c_files, c_data>>
    /\ UNCHANGED <<c_index, c_req, c_did, c_skipped, notCloud>>

\* openrouter_report.update_report(OUT_DIR) under the lock
TaskReportRead(t) ==
    /\ c_task[t] = "report"
    /\ ReportRead(t)
    /\ c_did' = [c_did EXCEPT ![t] = @ \cup {"report"}]
    /\ c_task' = [c_task EXCEPT ![t] = "report_write"]
    /\ UNCHANGED <<c_pc, c_models, c_conc, c_files, c_lock>>
    /\ UNCHANGED <<c_index, c_req, notCloud>>

\* update_report returns; with report_lock: (release)
TaskReportWrite(t) ==
    /\ c_task[t] = "report_write"
    /\ ReportWrite(t)
    /\ c_lock' = 0
    /\ c_task' = [c_task EXCEPT ![t] = "done"]
    /\ UNCHANGED <<c_pc, c_models, c_conc, c_files>>
    /\ UNCHANGED <<c_req, c_did, c_skipped, notCloud>>

\* for future in as_completed(futures): ...; the with block of the executor
\* ends when every submitted call has returned or raised.
MainPoolExit ==
    /\ c_pc = "pool"
    /\ \A t \in Tasks : Ended(t)
    /\ c_pc' = "final_report"
    /\ UNCHANGED <<c_models, c_conc, c_task, c_files, c_lock, c_data>>
    /\ UNCHANGED <<c_index, c_req, c_did, c_skipped, notCloud>>

\* main(): openrouter_report.update_report(OUT_DIR), after the pool
MainFinalRead ==
    /\ c_pc = "final_report"
    /\ ReportRead(0)
    /\ c_pc' = "final_write"
    /\ UNCHANGED <<c_models, c_conc, c_task, c_files, c_lock, c_index>>
    /\ UNCHANGED <<c_req, c_did, notCloud>>

MainFinalWrite ==
    /\ c_pc = "final_write"
    /\ ReportWrite(0)
    /\ c_pc' = "done"
    /\ UNCHANGED <<c_models, c_conc, c_task, c_files, c_lock, c_skipped>>
    /\ UNCHANGED <<c_req, c_did, notCloud>>

CloudTaskStart == \E t \in Tasks : TaskStart(t)
CloudTaskExists == \E t \in Tasks : TaskExists(t)
CloudTaskRequest == \E t \in Tasks : TaskRequest(t)
CloudTaskRespond == \E t \in Tasks : TaskRespond(t)
CloudTaskSave == \E t \in Tasks : TaskSave(t)
CloudTaskJsonOpen == \E t \in Tasks : TaskJsonOpen(t)
CloudTaskJsonClose == \E t \in Tasks : TaskJsonClose(t)
CloudTaskLock == \E t \in Tasks : TaskLock(t)
CloudTaskReportRead == \E t \in Tasks : TaskReportRead(t)
CloudTaskReportWrite == \E t \in Tasks : TaskReportWrite(t)

\* The lists of at most NTasks model ids.
ModelLists ==
    UNION {[1..n -> ModelIds] : n \in 1..NTasks}

InitCloud ==
    /\ c_pc = "initial_report"
    /\ c_models \in ModelLists
    /\ c_conc \in 1..NTasks
    /\ c_task = [t \in 1..Len(c_models) |-> "queued"]
    /\ c_files \in [Stems -> {"absent", "complete"}]
    /\ c_lock = 0
    /\ c_data = [e \in 0..Len(c_models) |-> <<>>]
    /\ c_index = <<>>
    /\ c_req = [t \in 1..Len(c_models) |-> 0]
    /\ c_did = [t \in 1..Len(c_models) |-> {}]
    /\ c_skipped = {}
    /\ toolPresent = TRUE
    /\ AuxUnused
    /\ PollUnused
    /\ ProbeIdle
    /\ ParseUnused
    /\ proc = 0
    /\ pstate = <<>>
    /\ spawned = 0
    /\ stopPc = "none"
    /\ stopEvents = <<>>
    /\ self_combo = 0
    /\ pconf = <<>>
    /\ ncalls = 0
    /\ lastCall = "none"
    /\ prog = "cloud"
    /\ pc = "cloud"
    /\ unit = 0
    /\ exc = "none"
    /\ ram_stop_evt = FALSE
    /\ ramThread = "none"
    /\ ram_results = {}
    /\ result = "none"
    /\ workers = <<>>
    /\ thread_results = <<>>
    /\ records = <<>>

NextCloud ==
    \/ MainInitialRead \/ MainInitialWrite
    \/ CloudTaskStart \/ CloudTaskExists \/ CloudTaskRequest
    \/ CloudTaskRespond \/ CloudTaskSave
    \/ CloudTaskJsonOpen \/ CloudTaskJsonClose
    \/ CloudTaskLock \/ CloudTaskReportRead \/ CloudTaskReportWrite
    \/ MainPoolExit \/ MainFinalRead \/ MainFinalWrite

SpecCloud == InitCloud /\ [][NextCloud]_vars

(***************************************************************************)
(* Properties of a session (Spec, FairSpec)                                *)
(***************************************************************************)

\* The unit that owns the current sampler instance has ended: main() died,
\* or the loop went on (the instance lives until the next PowerSampler(...)).
UnitEnded == pc \in {"aborted", "load", "new", "save", "done"}

\* A generation request has been sent and is not answered yet.
RequestInFlight ==
    \/ prog = "lms" /\ pc \in {"rest_wait", "v1_wait"}
    \/ prog = "ollama" /\ \E w \in 1..Len(workers) : workers[w] = "pending"

\* Some request of the unit has been issued and not all of them are over.
RequestPhaseOpen ==
    \/ prog = "lms" /\ pc \in {"rest_wait", "v1_post", "v1_wait"}
    \/ /\ prog = "ollama"
       /\ \E w \in 1..Len(workers) : workers[w] # "started"
       /\ \/ pc = "spawn"
          \/ \E w \in 1..Len(workers) : workers[w] # "done"

\* C1: once PowerSampler.start() has returned in a unit, stop() has been
\* called on that sampler and the RSS poller's stop event is set when the
\* unit ends, whatever the exit path.
C1_GuaranteedTeardown ==
    (UnitEnded /\ spawned >= 1) => (stopPc # "none" /\ ram_stop_evt)

\* C2: while the request phase of a unit is open, the sampler process and
\* the RSS poller thread have been started and neither has been signalled
\* to stop.
C2_TelemetryWindowEncloses ==
    RequestPhaseOpen =>
        /\ spawned = 1 /\ proc # 0
        /\ ramThread = "running"
        /\ ~ram_stop_evt
        /\ stopPc = "none"

\* A request of the second concurrency level is in flight after another
\* request of that level has completed.
C2_Witness ==
    /\ prog = "ollama" /\ unit = 2
    /\ Len(workers) = 2
    /\ workers[1] = "done" /\ workers[2] = "pending"
    /\ pc = "join_workers"

\* C3: when parse_powermetrics_log starts, stop() has returned and the
\* sampler process has exited.
C3_StatsAfterTeardown ==
    pc = "parse" => (stopPc = "returned" /\ pstate[proc] # "running")

\* C7: a failure of PowerSampler.start() to spawn the process does not end
\* the unit or the session.
C7_StartFailureAbsorbed == ~(pc = "aborted" /\ exc = "start")

\* C8: a failed generation request never ends the session, and a session
\* that ran to its end holds a record for every unit.
C8_FailedRequestNeverAborts ==
    /\ ~(pc = "aborted" /\ exc \in {"request", "malformed"})
    /\ pc = "done" => \A u \in 1..NUnits : records[u] # "none"

\* C12: the probe is called at most once in a session and only before the
\* first sampler is spawned; main() holds its result unchanged from then on,
\* and every sampler process spawned was given the selected configuration,
\* or "all" when none was selected.
C12_ProbeOnceResultReused ==
    /\ probe_calls <= 1
    /\ probe_ret = "running" => (pstate = <<>> /\ sampler_combo = 0)
    /\ pc \notin {"which", "probe"} =>
          /\ probe_ret \in {"idle", "selected", "None"}
          /\ sampler_combo = probe_sel
    /\ \A p \in 1..Len(pconf) :
          pconf[p] = IF probe_sel = 0 THEN "all" ELSE combos[probe_sel]

\* The sampler of the second unit was spawned with the configuration the
\* probe selected after two failed candidates.
C12_Witness ==
    /\ prog = "lms" /\ unit = 2
    /\ probe_calls = 1 /\ probe_sel = 3
    /\ Len(pconf) = 2
    /\ pconf[1] = "cpu_energy,gpu_energy" /\ pconf[2] = "cpu_energy,gpu_energy"

\* The timing and token-usage keys of a record.
TimingUsageKeys ==
    IF prog = "lms"
    THEN {"load_time_seconds", "generation_time_seconds", "usage"}
    ELSE {"total_time_seconds", "avg_tps", "total_tokens"}

\* C20: every record assembled for a unit, with or without a configuration
\* selected by the probe and with or without readings in the log, has its
\* timing and token-usage keys and the key "power", whose value holds the
\* statistics of every channel the script keeps; the statistics of a
\* channel without samples are None for min, max and avg and 0 for the
\* count. In bench_lmstudio_models.py every unit that was completed has a
\* record.
C20_DegradedRecordKeepsStatistics ==
    /\ \A u \in 1..Len(rec_body) :
          rec_body[u] # NoRecord =>
              /\ TimingUsageKeys \cup {"power"} \subseteq rec_body[u].keys
              /\ DOMAIN rec_body[u].power =
                     {StatsKeys[k] : k \in 1..Channels(prog)}
              /\ \A k \in DOMAIN rec_body[u].power :
                    /\ DOMAIN rec_body[u].power[k] =
                           {"avg", "max", "min", "samples"}
                    /\ rec_body[u].power[k].samples = 0 =>
                           rec_body[u].power[k] = EmptyStats
    /\ prog = "lms" => \A u \in 1..(unit - 1) : rec_body[u] # NoRecord

\* The probe found no working configuration, the log of the first unit held
\* no reading, and the record of the unit was written.
C20_Witness ==
    /\ prog = "lms"
    /\ probe_ret = "None"
    /\ unit = 2
    /\ rec_body[1].keys = MetricsKeys
    /\ rec_body[1].samplers = 0
    /\ \A k \in 1..3 : rec_body[1].power[StatsKeys[k]] = EmptyStats

\* C9: every generation request is bounded by a timeout, so a request in
\* flight always ends, whether or not the backend answers.
C9_RequestPhaseEnds == RequestInFlight ~> ~RequestInFlight

(***************************************************************************)
(* Properties of a cloud session (SpecCloud)                               *)
(***************************************************************************)

\* The executors that are inside update_report: 0 is main().
InReport == {e \in DOMAIN c_data : c_data[e] # <<>>}

\* C21: report regeneration is mutually exclusive over the whole cloud
\* session: no two executions of update_report (the initial one of main(),
\* those of the workers, the final one of main()) overlap.
C21_ReportRegenerationExclusive == Cardinality(InReport) <= 1

\* A worker is inside update_report while another one, its record written,
\* waits for the lock.
C21_Witness ==
    \E t \in Tasks : \E u \in Tasks :
        /\ c_task[t] = "report_write"
        /\ c_task[u] = "lock"

\* The workers that have opened record file f for writing.
Writers(f) == {t \in Tasks : json_path(t) = f /\ "json" \in c_did[t]}

\* C22: a record is written once and never overwritten: whatever the list
\* of model ids (duplicates, distinct ids with the same file name), at most
\* one worker writes a given record file, and a worker that found the record
\* present writes nothing.
C22_RecordWrittenOnce ==
    /\ \A f \in Stems : Cardinality(Writers(f)) <= 1
    /\ \A t \in Tasks : c_task[t] = "skipped" => c_did[t] = {}

(***************************************************************************)
(* Properties of the RSS poller (SpecPoller)                               *)
(***************************************************************************)

\* The largest summed RSS over the ticks so far, 0 when there was none.
LargestRss ==
    IF poll_ticks = <<>> THEN 0
    ELSE CHOOSE v \in {poll_ticks[i][2] : i \in 1..Len(poll_ticks)} :
             \A i \in 1..Len(poll_ticks) : v >= poll_ticks[i][2]

\* C23: the RSS poller keeps a running maximum: the high-water mark never
\* decreases and equals the largest summed RSS of any tick so far, and the
\* value returned is the maximum over all ticks (0 when there was no tick),
\* not the last reading.
C23_RunningMaximum ==
    /\ [](/\ lmstudio_hwm = LargestRss
          /\ (poll_ret # <<>> /\ poll_ret[1] = "returned") =>
                 poll_ret[Len(poll_ret)] = LargestRss)
    /\ [][lmstudio_hwm' >= lmstudio_hwm]_vars

\* The poller has returned after two ticks or more, the last of which read
\* less than an earlier one.
C23_Witness ==
    /\ poll_ret # <<>> /\ poll_ret[1] = "returned"
    /\ Len(poll_ticks) >= 2
    /\ poll_ticks[Len(poll_ticks)][2] < LargestRss

(***************************************************************************)
(* Properties of a session, continued (Spec)                               *)
(***************************************************************************)

\* main() ended before the loop over the units.
StartupFailed ==
    /\ pc = "aborted"
    /\ exc \in {"no_cli", "server_start", "server", "list", "exit", "startup"}

\* No unit has been started: no model was loaded (lms), no sampler was
\* constructed for a level (ollama).
NoUnitStarted ==
    \/ pc \in {"assert_tools", "ensure_server", "probe_server", "which",
               "probe", "list", "startup"}
    \/ prog = "lms" /\ unit = 1 /\ pc = "load"
    \/ prog = "ollama" /\ unit = 1 /\ pc = "new"
    \/ StartupFailed

\* C24: the preconditions of a session are fatal before any unit: with the
\* backend unreachable at startup, or with the powermetrics binary absent,
\* no unit is started; the startup wait of the local server makes at most 60
\* probes and ends on the first success or by raising.
C24_PreconditionsFatal ==
    /\ srv_probes <= ServerProbes
    /\ StartupFailed =>
          /\ spawned = 0 /\ ramThread = "none"
          /\ \A w \in DOMAIN nreq : nreq[w] = 0
          /\ \A u \in DOMAIN records : records[u] = "none"
    /\ ~toolPresent => NoUnitStarted

(***************************************************************************)
(* Properties of a parse, continued (SpecParse)                            *)
(***************************************************************************)

\* The position of the "Power:" whose reading the direct rule takes for
\* label k in s, 0 when the rule finds none.
DirectPowerAt(s, k) ==
    LET starts == {i \in 1..Len(s) : MatchAtI(s, i, LabelChars[k])}
        ends == {j \in 1..Len(s) :
                    /\ starts # {}
                    /\ j >= Min(starts) + Len(LabelChars[k])
                    /\ MatchAtI(s, j, sPower)
                    /\ reading(s, j + Len(sPower)).ok}
    IN  IF ends = {} THEN 0 ELSE Min(ends)

\* The channel a reading names: the label that stands last before the
\* "Power:" at position j, 0 when no label stands before it.
NamedChannel(s, j) ==
    LET at == {<<k, i>> \in (1..3) \X (1..Len(s)) :
                  MatchAtI(s, i, LabelChars[k]) /\ i + Len(LabelChars[k]) <= j}
    IN  IF at = {} THEN 0
        ELSE (CHOOSE a \in at : \A b \in at : b[2] <= a[2])[1]

\* C25: a direct reading is attributed to the channel it names and to no
\* other, whatever the current section, and the direct rule leaves the
\* current section as the header rule set it: a line with a reading for
\* one channel adds no sample to another channel.
C25_DirectReadingExplicitChannel ==
    /\ \A k \in 1..3 : \A p \in 1..Len(Lists[k]) :
          Lists[k][p].rule = "direct" =>
              LET s == clean(p_file.lines[Lists[k][p].line])
              IN  NamedChannel(s, DirectPowerAt(s, k)) = k
    /\ parse_ret \in {"running", "returned"} =>
          current_section =
              IF LastHeader(impl, p_file.lines, line_i) = 0
              THEN Locals0(impl).cur
              ELSE LabelNames[LastHeader(impl, p_file.lines, line_i)]

\* The generation requests sent for the current unit (lms), by worker w of
\* the current level (ollama).
RequestsSent(w) == IF prog = "lms" THEN nreq[1] + nreq[2] ELSE nreq[w]

\* A cloud worker sends at most one generation request.
CloudSingleRequest == \A t \in Tasks : c_req[t] <= 1

\* C26, as stated: for each unit, and each worker of a concurrency level, at
\* most one generation request is sent; after a request has failed no
\* second one is issued.
C26_NoRetry_asStated == \A w \in DOMAIN nreq : RequestsSent(w) <= 1

\* C26, amended: no request is sent twice: a worker of a concurrency level
\* sends at most one generation request; a unit of the local-server session
\* sends at most one to the REST endpoint and, only after that one was sent
\* and did not return a result, at most one to the /v1 endpoint; after the
\* /v1 request has failed nothing more is sent for the unit.
C26_NoRetry ==
    /\ \A w \in DOMAIN nreq : nreq[w] <= 1
    /\ prog = "lms" =>
          /\ nreq[2] <= nreq[1]
          /\ pc \in {"rest_wait", "v1_post"} => nreq[2] = 0
          /\ pc \in {"v1_post", "v1_wait"} => result = "none"

\* Both requests of a unit of the local-server session have failed and the
\* unit is being torn down.
C26_Witness ==
    /\ prog = "lms"
    /\ nreq[1] = 1 /\ nreq[2] = 1
    /\ pc = "join" /\ exc = "request"

\* The entries of the shared result list with error = None, with an error.
OkEntries == {i \in 1..Len(thread_results) : thread_results[i] = "ok"}
ErrEntries == {i \in 1..Len(thread_results) : thread_results[i] = "err"}

\* The workers of the current level have all been joined.
WorkersJoined ==
    /\ prog = "ollama"
    /\ pc \in {"finally", "join", "stop", "in_stop", "parse", "assemble"}

\* C27: every request worker of a concurrency level appends exactly one
\* entry to the shared list on every path, so after the C workers of the
\* level have been joined the list holds exactly C entries, under every
\* interleaving; an entry has error = None exactly when its request
\* succeeded.
C27_OneEntryPerWorker ==
    prog = "ollama" =>
        /\ Len(thread_results) =
               Cardinality({w \in 1..Len(workers) : workers[w] = "done"})
        /\ Cardinality(OkEntries) =
               Cardinality({w \in DOMAIN w_out : w_out[w] = "succeeded"})
        /\ Cardinality(ErrEntries) =
               Cardinality({w \in DOMAIN w_out : w_out[w] = "failed"})
        /\ WorkersJoined =>
               Len(thread_results) = CONCURRENCY_LEVELS[unit]

\* The two workers of the second level have been joined: the one started
\* last succeeded first, the other one failed.
C27_Witness ==
    /\ WorkersJoined /\ unit = 2
    /\ thread_results = <<"ok", "err">>
    /\ w_out[1] = "failed" /\ w_out[2] = "succeeded"

\* C28: in the local-server benchmark the RSS poller thread has terminated
\* and published its result when the record of a unit is assembled: the
\* memory section of the record of every completed unit holds both
\* high-water-mark fields, however long the last tick of the poller takes.
C28_MemorySectionComplete ==
    prog = "lms" =>
        /\ pc = "write" => ramThread = "done"
        /\ \A u \in 1..Len(rec_body) :
              rec_body[u] # NoRecord =>
                  rec_body[u].memory =
                      {"system_used_hwm_bytes", "lmstudio_rss_hwm_bytes"}

\* C29: in the cloud benchmark a report regeneration never reads a record
\* file that a worker is in the middle of writing: every record file that
\* update_report loads is completely written, and no unit is skipped from
\* a regenerated report as corrupted.
C29_ReportReadsCompleteRecords == c_skipped = {}

\* C30: in the cloud benchmark a model whose record file exists is skipped
\* completely (no generation request, no record, HTML or text file written,
\* no report regeneration for it), and once main() has returned the final
\* report, generated after every worker had finished, covers every record
\* written in the session.
C30_SkipAndFinalReport ==
    /\ \A t \in Tasks :
          c_task[t] = "skipped" => (c_did[t] = {} /\ c_req[t] = 0)
    /\ c_pc \in {"final_report", "final_write", "done"} =>
          \A t \in Tasks : Ended(t)
    /\ c_pc = "done" =>
          \A t \in Tasks : "json" \in c_did[t] => json_path(t) \in c_index[1]

====
